---------------------------- MODULE Spec2Model ----------------------------
(***************************************************************************)
(* Model of the OpenSankey core: the layout engine (SankeyLayout), the     *)
(* tabular transform (TabularTransform), the journey analyzer, the         *)
(* Highlighter, and SankeyChart with its renderer and EventManager.        *)
(*                                                                         *)
(* The graph is an arena: node objects are numbered 1..Len(nodes), link    *)
(* objects 1..Len(links); a reference to a node or a link is its number.   *)
(* Numbers that the code holds as JavaScript doubles (x, y, height, link   *)
(* width, sy, ty) are exact rationals <<numerator, denominator>> in lowest *)
(* terms with a positive denominator, so equality of values is equality of *)
(* pairs.  Link values, node values and depths are integers.               *)
(***************************************************************************)
EXTENDS Integers, Sequences, FiniteSets

VARIABLES
    nodes,      \* arena of SankeyNode objects: Seq of node records
    links,      \* arena of SankeyLink objects: Seq of link records
    gnodes,     \* graph.nodes: Seq of node numbers, in array order
    config,     \* the SankeyConfig the SankeyLayout was constructed with
    pc,         \* position inside compute(): "idle" before, "done" after
    columns,    \* relaxNodePositions' local `columns` (arrays sorted in place)
    iter,       \* relaxNodePositions' loop variable i
    col,        \* relaxNodePositions' loop variable c
    calls,      \* number of compute() calls started so far
    prev,       \* the graph as it was when the running compute() call started
    writes,     \* per node: number of assignments to node.depth in this call
    damping,    \* relaxNodePositions' local `damping` of the running iteration
    rows,       \* data.rows handed to TabularTransform.transform
    tpc,        \* position inside transform(): "idle" when it is not in use
    linkAgg,    \* transform's Map linkAgg: its entries in insertion order
    nodeIds,    \* transform's array nodeIds
    metrics,    \* what JourneyAnalyzer.analyze returned, <<>> before
    highlight,  \* the attributes Highlighter left on the paths and rects
    chart,      \* SankeyChart: graph set, destroyed, inside setGraph, compute() calls made
    dom,        \* the rendered elements, their listeners and the document's listeners
    em,         \* EventManager: boundHandlers, graph, and the bindDrag closures
    mouse,      \* the pointer: button held, and what the last mousedown hit
    emitted     \* late: EventManager.emit was called after destroy()

vars == <<nodes, links, gnodes, config, pc, columns, iter, col, calls, prev, writes, damping,
          rows, tpc, linkAgg, nodeIds, metrics, highlight, chart, dom, em, mouse, emitted>>

\* the state of SankeyLayout.compute() apart from the graph
layoutVars == <<config, pc, columns, iter, col, calls, prev, writes, damping>>

\* the state of TabularTransform.transform() apart from the graph
transformVars == <<rows, tpc, linkAgg, nodeIds>>

\* the state of the chart and its interactions apart from the graph
interactionVars == <<highlight, chart, dom, em, mouse, emitted>>

\* the attributes of freshly rendered elements, which reset() restores
Plain == [applied |-> FALSE, links |-> {}, nodes |-> {}, last |-> <<"none", 0>>]

\* a chart that has been constructed and nothing more
InitInteraction ==
    /\ highlight = Plain
    /\ chart = [graph |-> FALSE, destroyed |-> FALSE, busy |-> FALSE, computes |-> 0]
    /\ dom = [gen |-> 0, attached |-> TRUE, y |-> <<>>, listeners |-> {}, document |-> <<>>]
    /\ em = [boundHandlers |-> <<>>, graph |-> FALSE, drag |-> <<>>]
    /\ mouse = [down |-> FALSE, node |-> 0, y0 |-> 0, nodeY0 |-> <<0, 1>>]
    /\ emitted = [late |-> FALSE]

-----------------------------------------------------------------------------
(* Bounds of the model *)

MaxNodes == 3
MaxLinks == 3
MaxValue == 2
MaxIterations == 2
MaxCalls == 2

-----------------------------------------------------------------------------
(* Exact rational arithmetic *)

Abs(a) == IF a < 0 THEN -a ELSE a

RECURSIVE Gcd(_, _)
Gcd(a, b) == IF b = 0 THEN a ELSE Gcd(b, a % b)

\* the rational n/d (d # 0) in lowest terms with a positive denominator
Rat(n, d) ==
    LET g == Gcd(Abs(n), Abs(d))
        s == IF d < 0 THEN -1 ELSE 1
    IN  <<(s * n) \div g, (s * d) \div g>>

Num(a) == <<a, 1>>
Zero == <<0, 1>>
Add(p, q) == Rat(p[1] * q[2] + q[1] * p[2], p[2] * q[2])
Sub(p, q) == Rat(p[1] * q[2] - q[1] * p[2], p[2] * q[2])
Mul(p, q) == Rat(p[1] * q[1], p[2] * q[2])
Div(p, q) == Rat(p[1] * q[2], p[2] * q[1])
Lt(p, q) == p[1] * q[2] < q[1] * p[2]
Leq(p, q) == p[1] * q[2] <= q[1] * p[2]
\* Math.max(p, q)
MaxR(p, q) == IF Lt(p, q) THEN q ELSE p

-----------------------------------------------------------------------------
(* Arrays *)

\* InsertStable with the element put before the elements of equal key
RECURSIVE InsertUnstable(_, _, _)
InsertUnstable(s, e, key) ==
    IF s = <<>> THEN <<e>>
    ELSE IF Leq(key[e], key[s[Len(s)]])
         THEN Append(InsertUnstable(SubSeq(s, 1, Len(s) - 1), e, key), s[Len(s)])
         ELSE Append(s, e)

\* Array.prototype.sort((a, b) => key(a) - key(b)): a stable sort by ascending
\* key, key being a function from the elements to rationals.  An element is
\* inserted after every element whose key is not greater than its own.
RECURSIVE InsertStable(_, _, _)
InsertStable(s, e, key) ==
    IF s = <<>> THEN <<e>>
    ELSE IF Lt(key[e], key[s[Len(s)]])
         THEN Append(InsertStable(SubSeq(s, 1, Len(s) - 1), e, key), s[Len(s)])
         ELSE Append(s, e)

\* StableSort that keeps one element of each key
RECURSIVE StableSortUnique(_, _)
StableSortUnique(s, key) ==
    IF s = <<>> THEN <<>>
    ELSE LET rest == StableSortUnique(SubSeq(s, 1, Len(s) - 1), key)
         IN  IF \E k \in 1..Len(rest) : key[rest[k]] = key[s[Len(s)]]
             THEN rest
             ELSE InsertStable(rest, s[Len(s)], key)

RECURSIVE StableSort(_, _)
StableSort(s, key) ==
    IF s = <<>> THEN <<>>
    ELSE InsertStable(StableSort(SubSeq(s, 1, Len(s) - 1), key), s[Len(s)], key)

\* array.reduce((s, e) => s + f[e], 0), integers
RECURSIVE SumInt(_, _)
SumInt(s, f) == IF s = <<>> THEN 0 ELSE SumInt(SubSeq(s, 1, Len(s) - 1), f) + f[s[Len(s)]]

\* array.reduce((s, e) => s + f[e], 0), rationals
RECURSIVE SumRat(_, _)
SumRat(s, f) ==
    IF s = <<>> THEN Zero ELSE Add(SumRat(SubSeq(s, 1, Len(s) - 1), f), f[s[Len(s)]])

Range(s) == {s[k] : k \in 1..Len(s)}

\* Math.max(...S, 0) for a set S of naturals
MaxOf(S) == IF S = {} THEN 0 ELSE CHOOSE x \in S : \A y \in S : y <= x

-----------------------------------------------------------------------------
(* SankeyLayout.computeDepths *)

\* nodes.filter(n => n.targetLinks.length === 0)
Sources(ns, gn) == SelectSeq(gn, LAMBDA n : ns[n].targetLinks = <<>>)

\* for (const link of node.sourceLinks)
\*   if (!visited.has(link.target.id)) next.push(link.target)
UnvisitedTargets(ns, ls, sl, visited) ==
    SelectSeq([k \in 1..Len(sl) |-> ls[sl[k]].target], LAMBDA t : ns[t].id \notin visited)

\* VisitLevel with `node.depth = depth` ahead of the visited test
RECURSIVE VisitLevelLate(_, _, _, _, _)
VisitLevelLate(st, ls, current, k, depth) ==
    IF k > Len(current) THEN st
    ELSE LET n == current[k]
             ns1 == [st.ns EXCEPT ![n].depth = depth]
             w1 == [st.writes EXCEPT ![n] = @ + 1]
         IN  IF st.ns[n].id \in st.visited
             THEN VisitLevelLate([st EXCEPT !.ns = ns1, !.writes = w1], ls, current, k + 1, depth)
             ELSE LET visited == st.visited \cup {st.ns[n].id}
                  IN  VisitLevelLate([ns |-> ns1,
                                      visited |-> visited,
                                      next |-> st.next \o UnvisitedTargets(ns1, ls, ns1[n].sourceLinks, visited),
                                      writes |-> w1],
                                     ls, current, k + 1, depth)

\* the body of `for (const node of current)`, from element k on;
\* st = [ns, visited, next, writes]
RECURSIVE VisitLevel(_, _, _, _, _)
VisitLevel(st, ls, current, k, depth) ==
    IF k > Len(current) THEN st
    ELSE LET n == current[k] IN
         IF st.ns[n].id \in st.visited THEN VisitLevel(st, ls, current, k + 1, depth)
         ELSE LET visited == st.visited \cup {st.ns[n].id}
                  ns1 == [st.ns EXCEPT ![n].depth = depth]
              IN  VisitLevel([ns |-> ns1,
                              visited |-> visited,
                              next |-> st.next \o UnvisitedTargets(ns1, ls, ns1[n].sourceLinks, visited),
                              writes |-> [st.writes EXCEPT ![n] = @ + 1]],
                             ls, current, k + 1, depth)

\* Bfs with depth += 2 from one level to the next
RECURSIVE BfsDoubleStep(_, _, _, _)
BfsDoubleStep(st, ls, current, depth) ==
    IF current = <<>> THEN st
    ELSE LET r == VisitLevel([st EXCEPT !.next = <<>>], ls, current, 1, depth)
         IN  BfsDoubleStep(r, ls, r.next, depth + 2)

\* while (current.length > 0) { ...; current = next; depth++ }
RECURSIVE Bfs(_, _, _, _)
Bfs(st, ls, current, depth) ==
    IF current = <<>> THEN st
    ELSE LET r == VisitLevel([st EXCEPT !.next = <<>>], ls, current, 1, depth)
         IN  Bfs(r, ls, r.next, depth + 1)

\* DepthFallback that assigns nothing
DepthFallbackNone(st, gn) == st

\* Handle unvisited nodes (disconnected components)
DepthFallback(st, gn) ==
    LET miss(n) == n \in Range(gn) /\ st.ns[n].id \notin st.visited
    IN  [st EXCEPT !.ns = [n \in 1..Len(st.ns) |->
                              IF miss(n) THEN [st.ns[n] EXCEPT !.depth = 0] ELSE st.ns[n]],
                   !.writes = [n \in 1..Len(st.ns) |->
                              IF miss(n) THEN st.writes[n] + 1 ELSE st.writes[n]]]

\* Justify that takes only nodes with incoming links for sinks
JustifyLinkedSinksOnly(st, gn) ==
    LET maxDepth == MaxOf({st.ns[n].depth : n \in Range(gn)})
        moved(n) == /\ n \in Range(gn)
                    /\ st.ns[n].sourceLinks = <<>> /\ st.ns[n].targetLinks # <<>>
                    /\ st.ns[n].depth < maxDepth
    IN  [st EXCEPT !.ns = [n \in 1..Len(st.ns) |->
                              IF moved(n) THEN [st.ns[n] EXCEPT !.depth = maxDepth] ELSE st.ns[n]],
                   !.writes = [n \in 1..Len(st.ns) |->
                              IF moved(n) THEN st.writes[n] + 1 ELSE st.writes[n]]]

\* Justify that pushes the sinks one column past the rightmost one
JustifyPastLast(st, gn) ==
    LET maxDepth == MaxOf({st.ns[n].depth : n \in Range(gn)})
        moved(n) == n \in Range(gn) /\ st.ns[n].sourceLinks = <<>> /\ st.ns[n].depth <= maxDepth
    IN  [st EXCEPT !.ns = [n \in 1..Len(st.ns) |->
                              IF moved(n) THEN [st.ns[n] EXCEPT !.depth = maxDepth + 1]
                              ELSE st.ns[n]],
                   !.writes = [n \in 1..Len(st.ns) |->
                              IF moved(n) THEN st.writes[n] + 1 ELSE st.writes[n]]]

\* For 'justify' alignment, push sink nodes to the rightmost column
Justify(st, gn) ==
    LET maxDepth == MaxOf({st.ns[n].depth : n \in Range(gn)})
        moved(n) == n \in Range(gn) /\ st.ns[n].sourceLinks = <<>> /\ st.ns[n].depth < maxDepth
    IN  [st EXCEPT !.ns = [n \in 1..Len(st.ns) |->
                              IF moved(n) THEN [st.ns[n] EXCEPT !.depth = maxDepth] ELSE st.ns[n]],
                   !.writes = [n \in 1..Len(st.ns) |->
                              IF moved(n) THEN st.writes[n] + 1 ELSE st.writes[n]]]

\* returns [ns |-> the nodes with their depths, writes |-> assignments per node]
computeDepths(ns, ls, gn, cfg) ==
    LET sources == Sources(ns, gn)
        st0 == [ns |-> ns, visited |-> {}, next |-> <<>>, writes |-> [n \in 1..Len(ns) |-> 0]]
    IN  IF sources = <<>>
        THEN \* Circular graph fallback: assign all to depth 0
             [ns |-> [n \in 1..Len(ns) |->
                         IF n \in Range(gn) THEN [ns[n] EXCEPT !.depth = 0] ELSE ns[n]],
              writes |-> [n \in 1..Len(ns) |-> IF n \in Range(gn) THEN 1 ELSE 0]]
        ELSE LET visitedAll == DepthFallback(Bfs(st0, ls, sources, 0), gn)
                 res == IF cfg.nodeAlign = "justify" THEN Justify(visitedAll, gn) ELSE visitedAll
             IN  [ns |-> res.ns, writes |-> res.writes]

-----------------------------------------------------------------------------
(* SankeyLayout.computeNodeValues *)

LinkValue(ls) == [l \in 1..Len(ls) |-> ls[l].value]

\* computeNodeValues with inflow + outflow for the maximum
computeNodeValuesSum(ns, ls, gn) ==
    [n \in 1..Len(ns) |->
        IF n \in Range(gn)
        THEN [ns[n] EXCEPT !.value = SumInt(ns[n].targetLinks, LinkValue(ls))
                                     + SumInt(ns[n].sourceLinks, LinkValue(ls))]
        ELSE ns[n]]

computeNodeValues(ns, ls, gn) ==
    [n \in 1..Len(ns) |->
        IF n \in Range(gn)
        THEN LET inSum == SumInt(ns[n].targetLinks, LinkValue(ls))
                 outSum == SumInt(ns[n].sourceLinks, LinkValue(ls))
             IN  [ns[n] EXCEPT !.value = IF inSum > outSum THEN inSum ELSE outSum]
        ELSE ns[n]]

-----------------------------------------------------------------------------
(* SankeyLayout.positionNodesX *)

\* positionNodesX with the node width left inside the span the columns share
positionNodesXFullWidth(ns, gn, cfg) ==
    LET innerWidth == cfg.width - cfg.padding.left - cfg.padding.right
        maxDepth == MaxOf({ns[n].depth : n \in Range(gn)})
        step == IF maxDepth > 0 THEN Rat(innerWidth, maxDepth) ELSE Zero
    IN  [n \in 1..Len(ns) |->
            IF n \in Range(gn)
            THEN [ns[n] EXCEPT !.x = Add(Num(cfg.padding.left), Mul(Num(ns[n].depth), step)),
                               !.width = Num(cfg.nodeWidth)]
            ELSE ns[n]]

positionNodesX(ns, gn, cfg) ==
    LET innerWidth == cfg.width - cfg.padding.left - cfg.padding.right - cfg.nodeWidth
        maxDepth == MaxOf({ns[n].depth : n \in Range(gn)})
        step == IF maxDepth > 0 THEN Rat(innerWidth, maxDepth) ELSE Zero
    IN  [n \in 1..Len(ns) |->
            IF n \in Range(gn)
            THEN [ns[n] EXCEPT !.x = Add(Num(cfg.padding.left), Mul(Num(ns[n].depth), step)),
                               !.width = Num(cfg.nodeWidth)]
            ELSE ns[n]]

-----------------------------------------------------------------------------
(* SankeyLayout.getColumns: columns[d + 1] is the code's columns[d] *)

getColumns(ns, gn) ==
    LET maxDepth == MaxOf({ns[n].depth : n \in Range(gn)})
    IN  [d \in 1..(maxDepth + 1) |-> SelectSeq(gn, LAMBDA n : ns[n].depth = d - 1)]

-----------------------------------------------------------------------------
(* SankeyLayout.initializeNodeY *)

NodeValue(ns) == [n \in 1..Len(ns) |-> ns[n].value]

InnerHeight(cfg) == cfg.height - cfg.padding.top - cfg.padding.bottom

\* Math.max(0, (column.length - 1) * nodePadding)
TotalPadding(column, cfg) ==
    IF (Len(column) - 1) * cfg.nodePadding > 0 THEN (Len(column) - 1) * cfg.nodePadding ELSE 0

\* ScaleLoop with the comparison turned round: the largest candidate wins
RECURSIVE ScaleLoopMax(_, _, _, _, _)
ScaleLoopMax(ns, cols, k, cfg, gs) ==
    IF k > Len(cols) THEN gs
    ELSE LET totalValue == SumInt(cols[k], NodeValue(ns))
             availableHeight == InnerHeight(cfg) - TotalPadding(cols[k], cfg)
             scale == Rat(availableHeight, totalValue)
         IN  ScaleLoopMax(ns, cols, k + 1, cfg,
                          IF totalValue > 0 /\ (gs.inf \/ Lt(gs.v, scale))
                          THEN [inf |-> FALSE, v |-> scale]
                          ELSE gs)

\* the loop over the columns that lowers globalScale, from column k on;
\* gs = [inf |-> globalScale is still Infinity, v |-> its value otherwise]
RECURSIVE ScaleLoop(_, _, _, _, _)
ScaleLoop(ns, cols, k, cfg, gs) ==
    IF k > Len(cols) THEN gs
    ELSE LET totalValue == SumInt(cols[k], NodeValue(ns))
             availableHeight == InnerHeight(cfg) - TotalPadding(cols[k], cfg)
             scale == Rat(availableHeight, totalValue)
         IN  ScaleLoop(ns, cols, k + 1, cfg,
                       IF totalValue > 0 /\ (gs.inf \/ Lt(scale, gs.v))
                       THEN [inf |-> FALSE, v |-> scale]
                       ELSE gs)

\* globalScale after `if (!isFinite(globalScale)) globalScale = 0`
GlobalScale(ns, cols, cfg) ==
    LET gs == ScaleLoop(ns, cols, 1, cfg, [inf |-> TRUE, v |-> Zero])
    IN  IF gs.inf THEN Zero ELSE gs.v

\* node.height = Math.max(1, node.value * globalScale)
NodeHeight(value, globalScale) == MaxR(Num(1), Mul(Num(value), globalScale))

\* SortByValueDesc with the comparison turned round: ascending value
SortByValueAsc(ns, column) == StableSort(column, [n \in 1..Len(ns) |-> Num(ns[n].value)])

\* column.sort((a, b) => b.value - a.value)
SortByValueDesc(ns, column) == StableSort(column, [n \in 1..Len(ns) |-> Num(-ns[n].value)])

\* the stacking loop over one sorted column, from element k on
RECURSIVE StackColumn(_, _, _, _, _, _)
StackColumn(ns, column, k, y, globalScale, cfg) ==
    IF k > Len(column) THEN ns
    ELSE LET n == column[k]
             h == NodeHeight(ns[n].value, globalScale)
         IN  StackColumn([ns EXCEPT ![n].y = y, ![n].height = h], column, k + 1,
                         Add(Add(y, h), Num(cfg.nodePadding)), globalScale, cfg)

\* StackColumns with each column scaled to fill the height on its own
RECURSIVE StackColumnsOwnScale(_, _, _, _, _)
StackColumnsOwnScale(ns, cols, k, globalScale, cfg) ==
    IF k > Len(cols) THEN ns
    ELSE StackColumnsOwnScale(
             StackColumn(ns, SortByValueDesc(ns, cols[k]), 1, Num(cfg.padding.top),
                         GlobalScale(ns, <<cols[k]>>, cfg), cfg),
             cols, k + 1, globalScale, cfg)

RECURSIVE StackColumns(_, _, _, _, _)
StackColumns(ns, cols, k, globalScale, cfg) ==
    IF k > Len(cols) THEN ns
    ELSE StackColumns(StackColumn(ns, SortByValueDesc(ns, cols[k]), 1, Num(cfg.padding.top),
                                  globalScale, cfg),
                      cols, k + 1, globalScale, cfg)

initializeNodeY(ns, gn, cfg) ==
    LET cols == getColumns(ns, gn)
    IN  StackColumns(ns, cols, 1, GlobalScale(ns, cols, cfg), cfg)

-----------------------------------------------------------------------------
(* SankeyLayout.relaxNodePositions and its helpers *)

nodeCenter(ns, n) == Add(ns[n].y, Div(ns[n].height, Num(2)))

\* direction "target": over node.targetLinks and link.source;
\* direction "source": over node.sourceLinks and link.target
weightedCenter(ns, ls, n, direction) ==
    LET lks == IF direction = "target" THEN ns[n].targetLinks ELSE ns[n].sourceLinks
        other(l) == IF direction = "target" THEN ls[l].source ELSE ls[l].target
        sumWeightedY == SumRat(lks, [l \in 1..Len(ls) |->
                                       Mul(nodeCenter(ns, other(l)), Num(ls[l].value))])
        sumWeight == SumInt(lks, LinkValue(ls))
    IN  IF sumWeight > 0 THEN Div(sumWeightedY, Num(sumWeight)) ELSE nodeCenter(ns, n)

\* Damping counted from 1: it reaches 0 in the last iteration
DampingToZero(i, cfg) == Sub(Num(1), Rat(i + 1, cfg.iterations))

\* alpha * (1 - i / this.config.iterations), alpha = 1
Damping(i, cfg) == Sub(Num(1), Rat(i, cfg.iterations))

\* the loop `for (const node of columns[c])` of one pass, from element k on
RECURSIVE MoveColumn(_, _, _, _, _, _)
MoveColumn(ns, ls, column, k, direction, factor) ==
    IF k > Len(column) THEN ns
    ELSE LET n == column[k]
             lks == IF direction = "target" THEN ns[n].targetLinks ELSE ns[n].sourceLinks
             delta == Sub(weightedCenter(ns, ls, n, direction), nodeCenter(ns, n))
         IN  MoveColumn(IF lks = <<>> THEN ns
                        ELSE [ns EXCEPT ![n].y = Add(@, Mul(delta, factor))],
                        ls, column, k + 1, direction, factor)

\* PushDown with nodePadding left out of the running y0
RECURSIVE PushDownNoPadding(_, _, _, _, _)
PushDownNoPadding(ns, column, k, y, cfg) ==
    IF k > Len(column) THEN ns
    ELSE LET n == column[k]
             ny == IF Lt(ns[n].y, y) THEN y ELSE ns[n].y
         IN  PushDownNoPadding([ns EXCEPT ![n].y = ny], column, k + 1,
                               Add(ny, ns[n].height), cfg)

\* Push down overlapping nodes: the first sweep, from element k on
RECURSIVE PushDown(_, _, _, _, _)
PushDown(ns, column, k, y, cfg) ==
    IF k > Len(column) THEN ns
    ELSE LET n == column[k]
             ny == IF Lt(ns[n].y, y) THEN y ELSE ns[n].y
         IN  PushDown([ns EXCEPT ![n].y = ny], column, k + 1,
                      Add(Add(ny, ns[n].height), Num(cfg.nodePadding)), cfg)

\* PushUp with the node's height left out of the overflow
RECURSIVE PushUpNoHeight(_, _, _, _)
PushUpNoHeight(ns, column, k, cfg) ==
    IF k < 1 THEN ns
    ELSE LET n == column[k]
             overflow == Sub(Add(ns[n].y, Num(cfg.nodePadding)), ns[column[k + 1]].y)
         IN  PushUpNoHeight(IF Lt(Zero, overflow) THEN [ns EXCEPT ![n].y = Sub(@, overflow)]
                            ELSE ns,
                            column, k - 1, cfg)

\* Push up from bottom: the second sweep, from element k down (k = i + 1)
RECURSIVE PushUp(_, _, _, _)
PushUp(ns, column, k, cfg) ==
    IF k < 1 THEN ns
    ELSE LET n == column[k]
             overflow == Sub(Add(Add(ns[n].y, ns[n].height), Num(cfg.nodePadding)),
                             ns[column[k + 1]].y)
         IN  PushUp(IF Lt(Zero, overflow) THEN [ns EXCEPT ![n].y = Sub(@, overflow)] ELSE ns,
                    column, k - 1, cfg)

\* resolveCollisions without the check of the bottom edge and the second sweep
resolveCollisionsDownOnly(ns, column, cfg) ==
    LET sorted == StableSort(column, [n \in 1..Len(ns) |-> ns[n].y])
    IN  [ns |-> PushDown(ns, sorted, 1, Num(cfg.padding.top), cfg), column |-> sorted]

\* resolveCollisions of a non-empty column: [ns |-> nodes, column |-> the array
\* as sorted in place]
resolveCollisions(ns, column, cfg) ==
    LET sorted == StableSort(column, [n \in 1..Len(ns) |-> ns[n].y])
        down == PushDown(ns, sorted, 1, Num(cfg.padding.top), cfg)
        last == sorted[Len(sorted)]
        innerBottom == cfg.height - cfg.padding.bottom
        overflow == Sub(Add(down[last].y, down[last].height), Num(innerBottom))
    IN  [ns |-> IF Lt(Zero, overflow)
                THEN PushUp([down EXCEPT ![last].y = Sub(@, overflow)], sorted,
                            Len(sorted) - 1, cfg)
                ELSE down,
         column |-> sorted]

\* one column of a pass: move its nodes, then resolveCollisions
RelaxColumn(ns, ls, column, direction, factor, cfg) ==
    resolveCollisions(MoveColumn(ns, ls, column, 1, direction, factor), column, cfg)

-----------------------------------------------------------------------------
(* SankeyLayout.computeLinkOffsets *)

\* SortLinks with both arrays sorted by the y of the link's target
SortLinksByTarget(ns, ls, gn) ==
    [n \in 1..Len(ns) |->
        IF n \in Range(gn)
        THEN [ns[n] EXCEPT
                !.sourceLinks = StableSort(@, [l \in 1..Len(ls) |-> ns[ls[l].target].y]),
                !.targetLinks = StableSort(@, [l \in 1..Len(ls) |-> ns[ls[l].target].y])]
        ELSE ns[n]]

\* node.sourceLinks.sort((a, b) => a.target.y - b.target.y);
\* node.targetLinks.sort((a, b) => a.source.y - b.source.y)
SortLinks(ns, ls, gn) ==
    [n \in 1..Len(ns) |->
        IF n \in Range(gn)
        THEN [ns[n] EXCEPT
                !.sourceLinks = StableSort(@, [l \in 1..Len(ls) |-> ns[ls[l].target].y]),
                !.targetLinks = StableSort(@, [l \in 1..Len(ls) |-> ns[ls[l].source].y])]
        ELSE ns[n]]

\* link.width = outTotal > 0 ? (link.value / outTotal) * node.height : 0
LinkWidth(value, outTotal, height) ==
    IF outTotal > 0 THEN Mul(Rat(value, outTotal), height) ELSE Zero

\* the loop over one node's sourceLinks, from element k on
RECURSIVE SourceOffsets(_, _, _, _, _, _)
SourceOffsets(ls, sl, k, sy, outTotal, height) ==
    IF k > Len(sl) THEN ls
    ELSE LET w == LinkWidth(ls[sl[k]].value, outTotal, height)
         IN  SourceOffsets([ls EXCEPT ![sl[k]].width = w, ![sl[k]].sy = sy],
                           sl, k + 1, Add(sy, w), outTotal, height)

\* AllSourceOffsets with node.value taken for outTotal
RECURSIVE AllSourceOffsetsByNodeValue(_, _, _, _)
AllSourceOffsetsByNodeValue(ns, ls, gn, k) ==
    IF k > Len(gn) THEN ls
    ELSE LET n == gn[k]
         IN  AllSourceOffsetsByNodeValue(ns,
                 SourceOffsets(ls, ns[n].sourceLinks, 1, Zero, ns[n].value, ns[n].height),
                 gn, k + 1)

\* the first `for (const node of nodes)`, from element k of graph.nodes on
RECURSIVE AllSourceOffsets(_, _, _, _)
AllSourceOffsets(ns, ls, gn, k) ==
    IF k > Len(gn) THEN ls
    ELSE LET n == gn[k]
         IN  AllSourceOffsets(ns,
                 SourceOffsets(ls, ns[n].sourceLinks, 1, Zero,
                               SumInt(ns[n].sourceLinks, LinkValue(ls)), ns[n].height),
                 gn, k + 1)

\* the loop over one node's targetLinks, from element k on
RECURSIVE TargetOffsets(_, _, _, _)
TargetOffsets(ls, tl, k, ty) ==
    IF k > Len(tl) THEN ls
    ELSE TargetOffsets([ls EXCEPT ![tl[k]].ty = ty], tl, k + 1, Add(ty, ls[tl[k]].width))

\* AllTargetOffsets with a target-side proportional width computed for each
\* incoming link: (link.value / inTotal) * node.height
RECURSIVE TargetOffsetsOwnWidth(_, _, _, _, _, _)
TargetOffsetsOwnWidth(ls, tl, k, ty, inTotal, height) ==
    IF k > Len(tl) THEN ls
    ELSE LET w == LinkWidth(ls[tl[k]].value, inTotal, height)
         IN  TargetOffsetsOwnWidth([ls EXCEPT ![tl[k]].width = w, ![tl[k]].ty = ty],
                                   tl, k + 1, Add(ty, w), inTotal, height)

RECURSIVE AllTargetOffsetsOwnWidth(_, _, _, _)
AllTargetOffsetsOwnWidth(ns, ls, gn, k) ==
    IF k > Len(gn) THEN ls
    ELSE LET n == gn[k]
         IN  AllTargetOffsetsOwnWidth(ns,
                 TargetOffsetsOwnWidth(ls, ns[n].targetLinks, 1, Zero,
                                       SumInt(ns[n].targetLinks, LinkValue(ls)), ns[n].height),
                 gn, k + 1)

\* the second `for (const node of nodes)`, from element k of graph.nodes on
RECURSIVE AllTargetOffsets(_, _, _, _)
AllTargetOffsets(ns, ls, gn, k) ==
    IF k > Len(gn) THEN ls
    ELSE AllTargetOffsets(ns, TargetOffsets(ls, ns[gn[k]].targetLinks, 1, Zero), gn, k + 1)

\* computeLinkOffsets with the offsets laid out before the link arrays are sorted
computeLinkOffsetsUnsorted(ns, ls, gn) ==
    [ns |-> SortLinks(ns, ls, gn),
     ls |-> AllTargetOffsets(ns, AllSourceOffsets(ns, ls, gn, 1), gn, 1)]

\* returns [ns |-> nodes with sorted link lists, ls |-> links with width, sy, ty]
computeLinkOffsets(ns, ls, gn) ==
    LET sorted == SortLinks(ns, ls, gn)
    IN  [ns |-> sorted,
         ls |-> AllTargetOffsets(sorted, AllSourceOffsets(sorted, ls, gn, 1), gn, 1)]

-----------------------------------------------------------------------------
(* The graphs and configurations compute() is run on *)

LinkValues == 1..MaxValue
NodePaddings == {-1, 0, 1}
NodeAligns == {"left", "justify"}
\* the first iteration of a run of 2 is the only iteration of a run of 1
Iterations == {0, MaxIterations}

\* one canvas, small enough that columns overflow and the 1-pixel floor applies
Configs ==
    {[width |-> 10, height |-> 5,
      padding |-> [top |-> 1, right |-> 2, bottom |-> 1, left |-> 1],
      nodeWidth |-> 1, nodePadding |-> p, nodeAlign |-> a, iterations |-> it] :
        p \in NodePaddings, a \in NodeAligns, it \in Iterations}

\* all (source, target) pairs over n nodes, in a fixed order
PairSeq(n) == [k \in 1..(n * n) |-> <<((k - 1) \div n) + 1, ((k - 1) % n) + 1>>]

LinkSets(n) == {L \in SUBSET Range(PairSeq(n)) : Cardinality(L) <= MaxLinks}

\* what makeNode constructs: the computed fields are 0 unless overridden
NewNode(i, value, depth, sl, tl) ==
    [id |-> i, label |-> i, color |-> "none", value |-> value, depth |-> depth,
     x |-> Zero, y |-> Zero, width |-> Zero, height |-> Zero,
     sourceLinks |-> sl, targetLinks |-> tl]

NewLink(s, t, v) == [source |-> s, target |-> t, value |-> v, width |-> Zero, sy |-> Zero, ty |-> Zero]

\* what a caller left in node.value and node.depth (the tests set a.value = 10):
\* no layout of these graphs produces it, so a field compute() fails to write
\* shows
StaleValue == 10

\* the well-formed graph of n nodes whose links are `pairs`, in that order of
\* creation: every link is pushed on its source's sourceLinks and on its
\* target's targetLinks when it is created
InitGraphOn(n, pairs, val, cfg, gn) ==
    /\ links = [k \in 1..Len(pairs) |-> NewLink(pairs[k][1], pairs[k][2], val[pairs[k]])]
    /\ nodes = [i \in 1..n |->
                  NewNode(i, StaleValue, StaleValue,
                          SelectSeq([k \in 1..Len(pairs) |-> k], LAMBDA k : pairs[k][1] = i),
                          SelectSeq([k \in 1..Len(pairs) |-> k], LAMBDA k : pairs[k][2] = i))]
    /\ gnodes = gn
    /\ config = cfg
    /\ pc = "idle"
    /\ columns = <<>>
    /\ iter = 0
    /\ col = 0
    /\ calls = 0
    /\ prev = [nodes |-> <<>>, links |-> <<>>]
    /\ writes = [i \in 1..n |-> 0]
    /\ damping = Zero
    /\ rows = <<>>
    /\ tpc = "idle"
    /\ linkAgg = <<>>
    /\ nodeIds = <<>>
    /\ metrics = <<>>
    /\ InitInteraction

InitGraph(n, pairs, val, cfg) == InitGraphOn(n, pairs, val, cfg, [i \in 1..n |-> i])

\* every graph of up to MaxNodes nodes and MaxLinks links, under every
\* configuration
InitSmall ==
    \E n \in 0..MaxNodes : \E L \in LinkSets(n) : \E val \in [L -> LinkValues] :
    \E cfg \in Configs :
        InitGraph(n, SelectSeq(PairSeq(n), LAMBDA p : p \in L), val, cfg)

\* one node more, for the shapes that need four nodes (two sinks at different
\* depths, a relaxed column of three): links of value 1, nodePadding 0
InitWide ==
    \E L \in LinkSets(MaxNodes + 1) : \E cfg \in {c \in Configs : c.nodePadding = 0} :
        InitGraph(MaxNodes + 1, SelectSeq(PairSeq(MaxNodes + 1), LAMBDA p : p \in L),
                  [p \in L |-> 1], cfg)

Init == InitSmall \/ InitWide

\* graphs a caller may hand over that the transform would not build: graph.nodes
\* leaves out some of the nodes the links refer to (any subset of the node
\* objects, in their order), and links may have value 0
InitMalformed ==
    \E L \in LinkSets(MaxNodes) : \E val \in [L -> 0..1] :
    \E keep \in SUBSET (1..MaxNodes) : \E cfg \in {c \in Configs : c.nodePadding = 1} :
        InitGraphOn(MaxNodes, SelectSeq(PairSeq(MaxNodes), LAMBDA p : p \in L), val, cfg,
                    SelectSeq([i \in 1..MaxNodes |-> i], LAMBDA i : i \in keep))

-----------------------------------------------------------------------------
(* compute(), one action per step *)

\* compute(graph) is entered; `if (nodes.length === 0) return graph`
Compute ==
    /\ pc = "idle"
    /\ calls = 0
    /\ calls' = calls + 1
    /\ prev' = [nodes |-> nodes, links |-> links]
    /\ pc' = IF Len(gnodes) = 0 THEN "idle" ELSE "computeDepths"
    /\ UNCHANGED <<nodes, links, gnodes, config, columns, iter, col, writes>>
    /\ UNCHANGED damping
    /\ UNCHANGED <<transformVars, metrics, interactionVars>>

\* compute(graph) is entered again, on the graph the last call returned
ComputeAgain ==
    /\ pc = "idle"
    /\ calls > 0
    /\ calls < MaxCalls
    /\ calls' = calls + 1
    /\ prev' = [nodes |-> nodes, links |-> links]
    /\ pc' = IF Len(gnodes) = 0 THEN "idle" ELSE "computeDepths"
    /\ UNCHANGED <<nodes, links, gnodes, config, columns, iter, col, writes>>
    /\ UNCHANGED damping
    /\ UNCHANGED <<transformVars, metrics, interactionVars>>

ComputeDepths ==
    /\ pc = "computeDepths"
    /\ LET r == computeDepths(nodes, links, gnodes, config)
       IN  nodes' = r.ns /\ writes' = r.writes
    /\ pc' = "computeNodeValues"
    /\ UNCHANGED <<links, gnodes, config, columns, iter, col, calls, prev>>
    /\ UNCHANGED damping
    /\ UNCHANGED <<transformVars, metrics, interactionVars>>

ComputeNodeValues ==
    /\ pc = "computeNodeValues"
    /\ nodes' = computeNodeValues(nodes, links, gnodes)
    /\ pc' = "positionNodesX"
    /\ UNCHANGED <<links, gnodes, config, columns, iter, col, calls, prev, writes>>
    /\ UNCHANGED damping
    /\ UNCHANGED <<transformVars, metrics, interactionVars>>

PositionNodesX ==
    /\ pc = "positionNodesX"
    /\ nodes' = positionNodesX(nodes, gnodes, config)
    /\ pc' = "initializeNodeY"
    /\ UNCHANGED <<links, gnodes, config, columns, iter, col, calls, prev, writes>>
    /\ UNCHANGED damping
    /\ UNCHANGED <<transformVars, metrics, interactionVars>>

InitializeNodeY ==
    /\ pc = "initializeNodeY"
    /\ nodes' = initializeNodeY(nodes, gnodes, config)
    /\ pc' = "relaxNodePositions"
    /\ UNCHANGED <<links, gnodes, config, columns, iter, col, calls, prev, writes>>
    /\ UNCHANGED damping
    /\ UNCHANGED <<transformVars, metrics, interactionVars>>

\* relaxNodePositions is entered: const columns = this.getColumns(nodes); the
\* loops run no column when iterations <= 0 or there is a single column
RelaxNodePositions ==
    /\ pc = "relaxNodePositions"
    /\ columns' = getColumns(nodes, gnodes)
    /\ IF config.iterations > 0 /\ Len(columns') > 1
       THEN pc' = "forward" /\ col' = 1 /\ iter' = 0
       ELSE \* i runs from 0 to iterations over passes that visit no column
            /\ pc' = "computeLinkOffsets" /\ col' = col
            /\ iter' = IF config.iterations > 0 THEN config.iterations ELSE 0
    \* const damping = ..., at the top of every iteration
    /\ damping' = IF config.iterations > 0
                  THEN Damping(IF Len(columns') > 1 THEN 0 ELSE config.iterations - 1, config)
                  ELSE damping
    /\ UNCHANGED <<nodes, links, gnodes, config, calls, prev, writes>>
    /\ UNCHANGED <<transformVars, metrics, interactionVars>>

\* Forward pass, one round of `for (let c = 1; c < columns.length; c++)`; after
\* the last column the backward pass starts at c = columns.length - 2
RelaxForward ==
    /\ pc = "forward"
    /\ IF columns[col + 1] = <<>>
       THEN \* resolveCollisions reads last.y of an empty column: TypeError
            pc' = "threw" /\ UNCHANGED <<nodes, columns, col>>
       ELSE LET r == RelaxColumn(nodes, links, columns[col + 1], "target", damping, config)
            IN  /\ nodes' = r.ns
                /\ columns' = [columns EXCEPT ![col + 1] = r.column]
                /\ IF col + 1 < Len(columns)
                   THEN pc' = "forward" /\ col' = col + 1
                   ELSE pc' = "backward" /\ col' = Len(columns) - 2
    /\ UNCHANGED <<links, gnodes, config, iter, calls, prev, writes>>
    /\ UNCHANGED damping
    /\ UNCHANGED <<transformVars, metrics, interactionVars>>

\* RelaxBackward with the loop left as soon as a pass ends without moving a node
\* of its last column (convergence detection)
RelaxBackwardUntilStill ==
    /\ pc = "backward"
    /\ IF columns[col + 1] = <<>>
       THEN pc' = "threw" /\ UNCHANGED <<nodes, columns, col, iter>>
       ELSE LET r == RelaxColumn(nodes, links, columns[col + 1], "source", damping, config)
            IN  /\ nodes' = r.ns
                /\ columns' = [columns EXCEPT ![col + 1] = r.column]
                /\ IF col - 1 >= 0
                   THEN pc' = "backward" /\ col' = col - 1 /\ iter' = iter
                   ELSE /\ iter' = iter + 1
                        /\ col' = 1
                        /\ pc' = IF iter + 1 < config.iterations /\ r.ns # nodes
                                 THEN "forward" ELSE "computeLinkOffsets"
    /\ damping' = IF pc' = "forward" THEN Damping(iter', config) ELSE damping
    /\ UNCHANGED <<links, gnodes, config, calls, prev, writes>>
    /\ UNCHANGED <<transformVars, metrics, interactionVars>>

\* Backward pass, one round of `for (let c = columns.length - 2; c >= 0; c--)`;
\* after column 0 comes i++ and the next iteration, or the end of the loop
RelaxBackward ==
    /\ pc = "backward"
    /\ IF columns[col + 1] = <<>>
       THEN pc' = "threw" /\ UNCHANGED <<nodes, columns, col, iter>>
       ELSE LET r == RelaxColumn(nodes, links, columns[col + 1], "source", damping, config)
            IN  /\ nodes' = r.ns
                /\ columns' = [columns EXCEPT ![col + 1] = r.column]
                /\ IF col - 1 >= 0
                   THEN pc' = "backward" /\ col' = col - 1 /\ iter' = iter
                   ELSE /\ iter' = iter + 1
                        /\ col' = 1
                        /\ pc' = IF iter + 1 < config.iterations
                                 THEN "forward" ELSE "computeLinkOffsets"
    /\ damping' = IF pc' = "forward" THEN Damping(iter', config) ELSE damping
    /\ UNCHANGED <<links, gnodes, config, calls, prev, writes>>
    /\ UNCHANGED <<transformVars, metrics, interactionVars>>

\* computeLinkOffsets, then `return graph`
ComputeLinkOffsets ==
    /\ pc = "computeLinkOffsets"
    /\ LET r == computeLinkOffsets(nodes, links, gnodes)
       IN  nodes' = r.ns /\ links' = r.ls
    /\ pc' = "idle"
    /\ UNCHANGED <<gnodes, config, columns, iter, col, calls, prev, writes>>
    /\ UNCHANGED damping
    /\ UNCHANGED <<transformVars, metrics, interactionVars>>

Next ==
    \/ Compute
    \/ ComputeDepths
    \/ ComputeNodeValues
    \/ PositionNodesX
    \/ InitializeNodeY
    \/ RelaxNodePositions
    \/ RelaxForward
    \/ RelaxBackward
    \/ ComputeLinkOffsets

\* one compute() call on each graph
Spec == Init /\ [][Next]_vars

NextAgain ==
    \/ Next
    \/ ComputeAgain

\* compute() called up to MaxCalls times in a row on each graph
SpecAgain == Init /\ [][NextAgain]_vars

\* the positions compute() passes through
PcValues ==
    {"idle", "computeDepths", "computeNodeValues", "positionNodesX", "initializeNodeY",
     "relaxNodePositions", "forward", "backward", "computeLinkOffsets", "threw"}

\* where control is: the position in compute() and the loop variables
Control == <<pc, col, iter, calls>>

\* a call can start or is under way (not returned, not thrown)
Running == (pc = "idle" /\ calls = 0) \/ pc \notin {"idle", "threw"}

\* control moves on while a call can start or is under way
Advance ==
    /\ Running
    /\ pc' \in PcValues
    /\ col' \in 0..(MaxNodes + 1)
    /\ iter' \in 0..MaxIterations
    /\ calls' \in 0..MaxCalls

\* compute() is synchronous code on one thread: while a call is under way its
\* next step is taken.  Every step of Next changes Control, and a step of Next
\* exists exactly when Running holds, so this is weak fairness of Next stated
\* on the control variables.
SpecLive == Init /\ [][Next]_vars /\ WF_Control(Advance)

\* one compute() call on each graph, malformed graphs included
SpecMalformed == InitMalformed /\ [][Next]_vars

\* compute() has returned at least once and no call is running
Returned == pc = "idle" /\ calls > 0

-----------------------------------------------------------------------------
(* TabularTransform.transform *)

\* A string is the sequence of its characters.  Sep is the character the
\* aggregation key is built with and split at.
Sep == "->"

MaxRows == 3

\* sankeyConfig.colorPalette
Palette == <<"c1", "c2">>

\* Number(row[valueField]) || 0: a value cell is a number or not a number
NumberOrZero(cell) == IF cell.nan THEN 0 ELSE cell.n

\* if (!source || !target || value <= 0) continue
Skipped(row) ==
    row.source = <<>> \/ row.target = <<>> \/ NumberOrZero(row.value) <= 0

\* `${source}->${target}`
LinkKey(source, target) == source \o <<Sep>> \o target

\* the position of key among the entries of a Map, 0 when it has none
MapIndex(m, key) ==
    IF \E k \in 1..Len(m) : m[k].key = key
    THEN CHOOSE k \in 1..Len(m) : m[k].key = key
    ELSE 0

\* linkAgg.set(key, (linkAgg.get(key) || 0) + value): a new key goes last
MapAdd(m, key, value) ==
    LET k == MapIndex(m, key)
    IN  IF k = 0 THEN Append(m, [key |-> key, value |-> value])
        ELSE [m EXCEPT ![k].value = @ + value]

\* the first loop over data.rows, from row k on
RECURSIVE AggregateLinks(_, _, _)
AggregateLinks(rs, k, agg) ==
    IF k > Len(rs) THEN agg
    ELSE AggregateLinks(rs, k + 1,
             IF Skipped(rs[k]) THEN agg
             ELSE MapAdd(agg, LinkKey(rs[k].source, rs[k].target), NumberOrZero(rs[k].value)))

\* if (id && !nodeIdSet.has(id)) { nodeIdSet.add(id); nodeIds.push(id) }
PushUnseen(ids, id) ==
    IF id # <<>> /\ id \notin Range(ids) THEN Append(ids, id) ELSE ids

\* the second loop over data.rows, from row k on: every row is looked at
RECURSIVE CollectNodeIds(_, _, _)
CollectNodeIds(rs, k, ids) ==
    IF k > Len(rs) THEN ids
    ELSE CollectNodeIds(rs, k + 1, PushUnseen(PushUnseen(ids, rs[k].source), rs[k].target))

\* the node objects, in the order of nodeIds; nodeMap keeps that order
CreateNodes(ids, palette) ==
    [i \in 1..Len(ids) |->
        [id |-> ids[i], label |-> ids[i], color |-> palette[((i - 1) % Len(palette)) + 1],
         value |-> 0, depth |-> 0, x |-> Zero, y |-> Zero, width |-> Zero, height |-> Zero,
         sourceLinks |-> <<>>, targetLinks |-> <<>>]]

\* key.split(Sep): the pieces between the separators
RECURSIVE Split(_)
Split(s) ==
    IF \A k \in 1..Len(s) : s[k] # Sep THEN <<s>>
    ELSE LET k == CHOOSE i \in 1..Len(s) : s[i] = Sep /\ \A j \in 1..(i - 1) : s[j] # Sep
         IN  <<SubSeq(s, 1, k - 1)>> \o Split(SubSeq(s, k + 1, Len(s)))

\* nodeMap.get(id): the node's number, 0 for undefined
NodeOfId(ns, id) ==
    IF \E n \in 1..Len(ns) : ns[n].id = id
    THEN CHOOSE n \in 1..Len(ns) : ns[n].id = id
    ELSE 0

\* CreateLinks without target.targetLinks.push(link)
RECURSIVE CreateLinksSourceSideOnly(_, _, _, _)
CreateLinksSourceSideOnly(agg, k, ns, ls) ==
    IF k > Len(agg) THEN [ns |-> ns, ls |-> ls, threw |-> FALSE]
    ELSE LET parts == Split(agg[k].key)
             source == NodeOfId(ns, parts[1])
             target == NodeOfId(ns, parts[2])
             link == Len(ls) + 1
         IN  IF source = 0 \/ target = 0
             THEN [ns |-> ns, ls |-> ls, threw |-> TRUE]
             ELSE CreateLinksSourceSideOnly(agg, k + 1,
                      [ns EXCEPT ![source].sourceLinks = Append(@, link)],
                      Append(ls, NewLink(source, target, agg[k].value)))

\* `for (const [key, value] of linkAgg)`, from entry k on.  The endpoints are
\* the first two pieces of the key; source.sourceLinks or target.targetLinks
\* of an undefined node is a TypeError
RECURSIVE CreateLinks(_, _, _, _)
CreateLinks(agg, k, ns, ls) ==
    IF k > Len(agg) THEN [ns |-> ns, ls |-> ls, threw |-> FALSE]
    ELSE LET parts == Split(agg[k].key)
             source == NodeOfId(ns, parts[1])
             target == NodeOfId(ns, parts[2])
             link == Len(ls) + 1
         IN  IF source = 0
             THEN [ns |-> ns, ls |-> ls, threw |-> TRUE]
             ELSE IF target = 0
             THEN [ns |-> [ns EXCEPT ![source].sourceLinks = Append(@, link)],
                   ls |-> ls, threw |-> TRUE]
             ELSE CreateLinks(agg, k + 1,
                      [ns EXCEPT ![source].sourceLinks = Append(@, link),
                                 ![target].targetLinks = Append(@, link)],
                      Append(ls, NewLink(source, target, agg[k].value)))

\* transform(data): the graph returned for the rows rs, or threw
TransformOf(rs) ==
    CreateLinks(AggregateLinks(rs, 1, <<>>), 1,
                CreateNodes(CollectNodeIds(rs, 1, <<>>), Palette), <<>>)

\* the rows transform() is called with
ValueCells ==
    {[nan |-> TRUE, n |-> 0]} \cup {[nan |-> FALSE, n |-> v] : v \in (-1)..MaxValue}

\* rows whose source and target are '', 'A' or 'B' and whose value is any cell
PlainRows ==
    {[source |-> s, target |-> u, value |-> v] :
        s \in {<<>>, <<"A">>, <<"B">>}, u \in {<<>>, <<"A">>, <<"B">>}, v \in ValueCells}

\* rows of positive value whose source or target may hold the separator
SepRows ==
    {[source |-> s, target |-> u, value |-> [nan |-> FALSE, n |-> v]] :
        s \in {<<"A">>, <<"B">>, <<"A", Sep, "B">>},
        u \in {<<"A">>, <<"B">>, <<"A", Sep, "B">>}, v \in 1..MaxValue}

RowSeqs(R) == UNION {[1..n -> R] : n \in 0..MaxRows}

\* the layout configuration the transformed graph would be laid out with
LayoutConfig ==
    CHOOSE c \in Configs : c.nodePadding = 1 /\ c.nodeAlign = "justify" /\ c.iterations = 0

\* transform(data, ...) has been entered
InitTransform ==
    /\ rows \in RowSeqs(PlainRows) \cup RowSeqs(SepRows)
    /\ tpc = "aggregate"
    /\ linkAgg = <<>>
    /\ nodeIds = <<>>
    /\ metrics = <<>>
    /\ InitInteraction
    /\ nodes = <<>>
    /\ links = <<>>
    /\ gnodes = <<>>
    /\ config = LayoutConfig
    /\ pc = "idle"
    /\ columns = <<>>
    /\ iter = 0
    /\ col = 0
    /\ calls = 0
    /\ prev = [nodes |-> <<>>, links |-> <<>>]
    /\ writes = <<>>
    /\ damping = Zero

\* Aggregate links: key -> total value
AggregateRows ==
    /\ tpc = "aggregate"
    /\ linkAgg' = AggregateLinks(rows, 1, <<>>)
    /\ tpc' = "collect"
    /\ UNCHANGED <<rows, nodeIds, nodes, links, gnodes, layoutVars, metrics, interactionVars>>

\* Collect unique node IDs preserving first-seen order
CollectIds ==
    /\ tpc = "collect"
    /\ nodeIds' = CollectNodeIds(rows, 1, <<>>)
    /\ tpc' = "createNodes"
    /\ UNCHANGED <<rows, linkAgg, nodes, links, gnodes, layoutVars, metrics, interactionVars>>

\* Create nodes
CreateNodeObjects ==
    /\ tpc = "createNodes"
    /\ nodes' = CreateNodes(nodeIds, Palette)
    /\ tpc' = "createLinks"
    /\ UNCHANGED <<rows, linkAgg, nodeIds, links, gnodes, layoutVars, metrics, interactionVars>>

\* Create links with node references, then
\* return { nodes: Array.from(nodeMap.values()), links }
CreateLinkObjects ==
    /\ tpc = "createLinks"
    /\ LET r == CreateLinks(linkAgg, 1, nodes, <<>>)
       IN  /\ nodes' = r.ns
           /\ links' = r.ls
           /\ tpc' = IF r.threw THEN "threw" ELSE "returned"
           /\ gnodes' = IF r.threw THEN gnodes ELSE [i \in 1..Len(nodes) |-> i]
    /\ UNCHANGED <<rows, linkAgg, nodeIds, layoutVars, metrics, interactionVars>>

NextTransform ==
    \/ AggregateRows
    \/ CollectIds
    \/ CreateNodeObjects
    \/ CreateLinkObjects

\* one transform() call on each input
SpecTransform == InitTransform /\ [][NextTransform]_vars

-----------------------------------------------------------------------------
(* JourneyAnalyzer.analyze *)

\* analyze with the drop-off taken for sources and sinks as well
analyzeDropOffEverywhere(ns, ls, gn) ==
    [k \in 1..Len(gn) |->
        LET node == ns[gn[k]]
            inflow == SumInt(node.targetLinks, LinkValue(ls))
            outflow == SumInt(node.sourceLinks, LinkValue(ls))
            isSource == node.targetLinks = <<>>
            isSink == node.sourceLinks = <<>>
            dropOff == inflow - outflow
        IN  [nodeId |-> node.id, label |-> node.label,
             inflow |-> inflow, outflow |-> outflow, dropOff |-> dropOff,
             dropOffRate |-> IF inflow > 0 /\ ~isSource THEN Rat(dropOff, inflow) ELSE Zero,
             conversionRate |-> IF inflow > 0 /\ ~isSource THEN Rat(outflow, inflow)
                                ELSE IF isSource THEN Num(1) ELSE Zero,
             isSource |-> isSource, isSink |-> isSink]]

\* graph.nodes.map(node => ...): the rates are exact rationals
analyze(ns, ls, gn) ==
    [k \in 1..Len(gn) |->
        LET node == ns[gn[k]]
            inflow == SumInt(node.targetLinks, LinkValue(ls))
            outflow == SumInt(node.sourceLinks, LinkValue(ls))
            isSource == node.targetLinks = <<>>
            isSink == node.sourceLinks = <<>>
            dropOff == IF isSource \/ isSink THEN 0 ELSE inflow - outflow
        IN  [nodeId |-> node.id, label |-> node.label,
             inflow |-> inflow, outflow |-> outflow, dropOff |-> dropOff,
             dropOffRate |-> IF inflow > 0 /\ ~isSource THEN Rat(dropOff, inflow) ELSE Zero,
             conversionRate |-> IF inflow > 0 /\ ~isSource THEN Rat(outflow, inflow)
                                ELSE IF isSource THEN Num(1) ELSE Zero,
             isSource |-> isSource, isSink |-> isSink]]

\* the graphs analyze() is run on: up to MaxNodes nodes and MaxLinks links of
\* value 0..MaxValue
InitJourney ==
    \E n \in 1..MaxNodes : \E L \in LinkSets(n) : \E val \in [L -> 0..MaxValue] :
        InitGraph(n, SelectSeq(PairSeq(n), LAMBDA p : p \in L), val, LayoutConfig)

Analyze ==
    /\ metrics = <<>>
    /\ metrics' = analyze(nodes, links, gnodes)
    /\ UNCHANGED <<nodes, links, gnodes, layoutVars, transformVars, interactionVars>>

NextJourney == Analyze

\* one analyze() call on each graph
SpecJourney == InitJourney /\ [][NextJourney]_vars

-----------------------------------------------------------------------------
(* Highlighter *)

HighlightModes == {"forward", "backward", "both", "none"}

\* a layout configuration with the two interaction settings of SankeyConfig
ChartConfig(c, mode, drag) ==
    [width |-> c.width, height |-> c.height, padding |-> c.padding,
     nodeWidth |-> c.nodeWidth, nodePadding |-> c.nodePadding, nodeAlign |-> c.nodeAlign,
     iterations |-> c.iterations, highlightMode |-> mode, draggable |-> drag]

\* the link id `${link.source.id}->${link.target.id}` (the code joins the ids
\* with an arrow character), for node ids that hold no arrow: the pair of ids
LinkId(ns, ls, l) == <<ns[ls[l].source].id, ns[ls[l].target].id>>

\* collectForward(node, links, nodes): the loop over node.sourceLinks from
\* element k on; st = [links, nodes], the two sets the calls share
RECURSIVE collectForward(_, _, _, _, _)
collectForward(ns, ls, n, k, st) ==
    IF k > Len(ns[n].sourceLinks) THEN st
    ELSE LET l == ns[n].sourceLinks[k]
             id == LinkId(ns, ls, l)
         IN  IF id \in st.links THEN collectForward(ns, ls, n, k + 1, st)
             ELSE collectForward(ns, ls, n, k + 1,
                      collectForward(ns, ls, ls[l].target, 1,
                          [links |-> st.links \cup {id},
                           nodes |-> st.nodes \cup {ns[ls[l].target].id}]))

\* collectBackward(node, links, nodes): the loop over node.targetLinks
RECURSIVE collectBackward(_, _, _, _, _)
collectBackward(ns, ls, n, k, st) ==
    IF k > Len(ns[n].targetLinks) THEN st
    ELSE LET l == ns[n].targetLinks[k]
             id == LinkId(ns, ls, l)
         IN  IF id \in st.links THEN collectBackward(ns, ls, n, k + 1, st)
             ELSE collectBackward(ns, ls, n, k + 1,
                      collectBackward(ns, ls, ls[l].source, 1,
                          [links |-> st.links \cup {id},
                           nodes |-> st.nodes \cup {ns[ls[l].source].id}]))

\* applyHighlight: the paths whose data-link-id and the rects whose
\* data-node-id are in the sets glow, all others are dimmed
applyHighlight(ns, ls, gn, connectedLinks, connectedNodes, what) ==
    [applied |-> TRUE,
     links |-> {l \in 1..Len(ls) : LinkId(ns, ls, l) \in connectedLinks},
     nodes |-> {n \in Range(gn) : ns[n].id \in connectedNodes},
     last |-> what]

\* highlightNode(node), on elements whose attributes are h
highlightNode(ns, ls, gn, n, cfg, h) ==
    IF cfg.highlightMode = "none" THEN h
    ELSE LET st0 == [links |-> {}, nodes |-> {ns[n].id}]
             st1 == IF cfg.highlightMode \in {"forward", "both"}
                    THEN collectForward(ns, ls, n, 1, st0) ELSE st0
             st2 == IF cfg.highlightMode \in {"backward", "both"}
                    THEN collectBackward(ns, ls, n, 1, st1) ELSE st1
         IN  applyHighlight(ns, ls, gn, st2.links, st2.nodes, <<"node", n>>)

\* highlightLink(link)
highlightLink(ns, ls, gn, l, cfg, h) ==
    IF cfg.highlightMode = "none" THEN h
    ELSE applyHighlight(ns, ls, gn, {LinkId(ns, ls, l)},
                        {ns[ls[l].source].id, ns[ls[l].target].id}, <<"link", l>>)

\* the rendered graphs a Highlighter works on: up to MaxNodes nodes and
\* MaxLinks links, cycles included, under every highlightMode
InitHighlight ==
    \E n \in 1..MaxNodes : \E L \in LinkSets(n) : \E mode \in HighlightModes :
        InitGraph(n, SelectSeq(PairSeq(n), LAMBDA p : p \in L), [p \in L |-> 1],
                  ChartConfig(LayoutConfig, mode, TRUE))

HighlightNode(n) ==
    /\ highlight' = highlightNode(nodes, links, gnodes, n, config, highlight)
    /\ UNCHANGED <<nodes, links, gnodes, layoutVars, transformVars, metrics>>
    /\ UNCHANGED <<chart, dom, em, mouse, emitted>>

HighlightLink(l) ==
    /\ highlight' = highlightLink(nodes, links, gnodes, l, config, highlight)
    /\ UNCHANGED <<nodes, links, gnodes, layoutVars, transformVars, metrics>>
    /\ UNCHANGED <<chart, dom, em, mouse, emitted>>

\* reset()
Reset ==
    /\ highlight' = Plain
    /\ UNCHANGED <<nodes, links, gnodes, layoutVars, transformVars, metrics>>
    /\ UNCHANGED <<chart, dom, em, mouse, emitted>>

NextHighlight ==
    \/ \E n \in Range(gnodes) : HighlightNode(n)
    \/ \E l \in 1..Len(links) : HighlightLink(l)
    \/ Reset

\* highlightNode, highlightLink and reset called in any order on each graph
SpecHighlight == InitHighlight /\ [][NextHighlight]_vars

-----------------------------------------------------------------------------
(* SankeyChart, SankeyRenderer.render and EventManager *)

MaxRenders == 3
MaxSetGraphs == 1
MaxClientY == 1

\* the clientY of a mouse event
ClientYs == 0..MaxClientY

\* the elements render() creates: one rect per node and one path per link,
\* new ones on every call (g counts the calls)
RectOf(g, n) == <<"rect", g, n>>
PathOf(g, l) == <<"path", g, l>>

\* everything the handlers read and write, as one value
World ==
    [nodes |-> nodes, dom |-> dom, em |-> em, chart |-> chart, emitted |-> emitted,
     highlight |-> highlight]

Commit(w) ==
    /\ nodes' = w.nodes
    /\ dom' = w.dom
    /\ em' = w.em
    /\ chart' = w.chart
    /\ emitted' = w.emitted
    /\ highlight' = w.highlight

\* SankeyRenderer.render(graph): clear(), then fresh paths and rects with the
\* attributes of the graph as it is now
render(w) ==
    [w EXCEPT !.dom.gen = @ + 1,
              !.dom.y = [n \in Range(gnodes) |-> w.nodes[n].y],
              !.highlight = Plain]

\* EventManager.unbind()
unbind(w) ==
    [w EXCEPT !.dom.listeners = @ \ Range(w.em.boundHandlers),
              !.em.boundHandlers = <<>>,
              !.em.graph = FALSE]

\* the addListener calls of bind() for one rect and for one path
NodeListeners(el, cfg) ==
    <<<<el, "mouseenter">>, <<el, "mouseleave">>, <<el, "click">>>>
        \o (IF cfg.draggable THEN <<<<el, "mousedown">>>> ELSE <<>>)

LinkListeners(el) == <<<<el, "mouseenter">>, <<el, "mouseleave">>, <<el, "click">>>>

\* the loop over nodesGroup.children, from child k on
RECURSIVE BindNodes(_, _, _)
BindNodes(g, k, acc) ==
    IF k > Len(gnodes) THEN acc
    ELSE BindNodes(g, k + 1, acc \o NodeListeners(RectOf(g, gnodes[k]), config))

\* the loop over linksGroup.children, from child k on
RECURSIVE BindLinks(_, _, _)
BindLinks(g, k, acc) ==
    IF k > Len(links) THEN acc
    ELSE BindLinks(g, k + 1, acc \o LinkListeners(PathOf(g, k)))

\* the variables of a bindDrag call: startY, startNodeY, dragging
NewDrag == [startY |-> 0, startNodeY |-> Zero, dragging |-> FALSE]

\* EventManager.bind(graph); em.drag keeps the closures that something still
\* refers to: those of the current rects and those listening on the document
bind(w) ==
    LET u == unbind(w)
        g == u.dom.gen
        added == BindLinks(g, 1, BindNodes(g, 1, <<>>))
        held == {h[2] : h \in Range(u.dom.document)}
        fresh == IF config.draggable THEN {RectOf(g, n) : n \in Range(gnodes)} ELSE {}
    IN  [u EXCEPT !.em.graph = TRUE,
                  !.em.boundHandlers = added,
                  !.dom.listeners = @ \cup Range(added),
                  !.em.drag = [el \in held \cup fresh |->
                                  IF el \in fresh THEN NewDrag ELSE u.em.drag[el]]]

\* EventManager.emit with the handlers the SankeyChart constructor subscribes
\* (tooltips write no state of the model)
emit(w, event, arg) ==
    LET e == [w EXCEPT !.emitted.late = @ \/ w.chart.destroyed]
    IN  CASE event = "node:hover" ->
                 [e EXCEPT !.highlight = highlightNode(e.nodes, links, gnodes, arg, config, @)]
          [] event = "link:hover" ->
                 [e EXCEPT !.highlight = highlightLink(e.nodes, links, gnodes, arg, config, @)]
          [] event \in {"node:leave", "link:leave"} -> [e EXCEPT !.highlight = Plain]
          [] event = "node:drag" -> IF e.chart.graph THEN bind(render(e)) ELSE e
          [] OTHER -> e

\* document.addEventListener: adding a listener that is there already does
\* nothing
AddListener(s, h) == IF h \in Range(s) THEN s ELSE Append(s, h)

\* onMouseDown of the closure of rect el
onMouseDown(w, el, y) ==
    [w EXCEPT !.em.drag[el] = [startY |-> y, startNodeY |-> w.nodes[el[3]].y,
                                dragging |-> TRUE],
              !.dom.document = AddListener(AddListener(@, <<"mousemove", el>>),
                                           <<"mouseup", el>>)]

\* onMouseMove with node.y = node.y + dy
onMouseMoveFromCurrent(w, el, y) ==
    LET c == w.em.drag[el]
        n == el[3]
        ny == Add(w.nodes[n].y, Num(y - c.startY))
    IN  IF ~c.dragging THEN w
        ELSE emit([w EXCEPT !.nodes[n].y = ny,
                            !.dom.y = IF el[2] = w.dom.gen THEN [@ EXCEPT ![n] = ny] ELSE @],
                  "node:drag", n)

\* onMouseMove of the closure of rect el
onMouseMove(w, el, y) ==
    LET c == w.em.drag[el]
        n == el[3]
        ny == Add(c.startNodeY, Num(y - c.startY))
    IN  IF ~c.dragging THEN w
        ELSE emit([w EXCEPT !.nodes[n].y = ny,
                            !.dom.y = IF el[2] = w.dom.gen THEN [@ EXCEPT ![n] = ny] ELSE @],
                  "node:drag", n)

\* onMouseUp of the closure of rect el
onMouseUp(w, el) ==
    [w EXCEPT !.em.drag[el].dragging = FALSE,
              !.dom.document = SelectSeq(@, LAMBDA h : h[2] # el)]

\* the document dispatches a mousemove or mouseup to the listeners hs it had
\* when the event arrived, from listener k on; one removed meanwhile is skipped
RECURSIVE DispatchDocument(_, _, _, _, _)
DispatchDocument(w, hs, k, event, y) ==
    IF k > Len(hs) THEN w
    ELSE LET h == hs[k]
         IN  DispatchDocument(
                 IF h[1] = event /\ h \in Range(w.dom.document)
                 THEN IF event = "mousemove" THEN onMouseMove(w, h[2], y)
                      ELSE onMouseUp(w, h[2])
                 ELSE w,
                 hs, k + 1, event, y)

\* the chart event a DOM event on a rect or a path is turned into
NodeEvent == [mouseenter |-> "node:hover", mouseleave |-> "node:leave", click |-> "node:click"]
LinkEvent == [mouseenter |-> "link:hover", mouseleave |-> "link:leave", click |-> "link:click"]

\* the charts: one or two nodes, links of value 1, with and without dragging
InitChart ==
    \E n \in 1..2 : \E L \in LinkSets(n) :
    \E c \in {d \in Configs : d.nodePadding = 1 /\ d.nodeAlign = "left"} :
    \E drag \in BOOLEAN :
        InitGraph(n, SelectSeq(PairSeq(n), LAMBDA p : p \in L), [p \in L |-> 1],
                  ChartConfig(c, "both", drag))

\* setGraph(graph) up to the call of this.layout.compute(graph), whose steps
\* are the actions of compute()
SetGraph ==
    /\ ~chart.destroyed /\ ~chart.busy
    /\ pc = "idle"
    /\ chart.computes < MaxSetGraphs
    /\ chart' = [chart EXCEPT !.graph = TRUE, !.busy = TRUE, !.computes = @ + 1]
    /\ calls' = calls + 1
    /\ prev' = [nodes |-> nodes, links |-> links]
    /\ pc' = IF Len(gnodes) = 0 THEN "idle" ELSE "computeDepths"
    /\ UNCHANGED <<nodes, links, gnodes, config, columns, iter, col, writes, damping>>
    /\ UNCHANGED <<transformVars, metrics, highlight, dom, em, mouse, emitted>>

\* the rest of setGraph: this.renderer.render(graph); this.events.bind(graph)
SetGraphRender ==
    /\ chart.busy
    /\ pc = "idle"
    /\ Commit([bind(render(World)) EXCEPT !.chart.busy = FALSE])
    /\ UNCHANGED <<links, gnodes, layoutVars, transformVars, metrics, mouse>>

\* a mousedown on the rect of node n; the button was up
MouseDown(n, y) ==
    /\ ~chart.busy
    /\ dom.attached /\ dom.gen > 0
    /\ ~mouse.down
    /\ LET el == RectOf(dom.gen, n)
           heard == <<el, "mousedown">> \in dom.listeners
       IN  /\ Commit(IF heard THEN onMouseDown(World, el, y) ELSE World)
           /\ mouse' = [down |-> TRUE, node |-> IF heard THEN n ELSE 0, y0 |-> y,
                        nodeY0 |-> nodes[n].y]
    /\ UNCHANGED <<links, gnodes, layoutVars, transformVars, metrics>>

\* a mousemove anywhere in the document
MouseMove(y) ==
    /\ ~chart.busy
    /\ dom.gen < MaxRenders
    /\ Commit(DispatchDocument(World, dom.document, 1, "mousemove", y))
    /\ UNCHANGED <<links, gnodes, layoutVars, transformVars, metrics, mouse>>

\* the button is released, anywhere in the document
MouseUp ==
    /\ ~chart.busy
    /\ mouse.down
    /\ Commit(DispatchDocument(World, dom.document, 1, "mouseup", 0))
    /\ mouse' = [down |-> FALSE, node |-> 0, y0 |-> 0, nodeY0 |-> Zero]
    /\ UNCHANGED <<links, gnodes, layoutVars, transformVars, metrics>>

\* mouseenter, mouseleave or click on the rect of node n
OnNode(n, ev) ==
    /\ ~chart.busy
    /\ dom.attached /\ dom.gen > 0
    /\ Commit(IF <<RectOf(dom.gen, n), ev>> \in dom.listeners
              THEN emit(World, NodeEvent[ev], n) ELSE World)
    /\ UNCHANGED <<links, gnodes, layoutVars, transformVars, metrics, mouse>>

\* mouseenter, mouseleave or click on the path of link l
OnLink(l, ev) ==
    /\ ~chart.busy
    /\ dom.attached /\ dom.gen > 0
    /\ Commit(IF <<PathOf(dom.gen, l), ev>> \in dom.listeners
              THEN emit(World, LinkEvent[ev], l) ELSE World)
    /\ UNCHANGED <<links, gnodes, layoutVars, transformVars, metrics, mouse>>

\* destroy(): events.unbind(), tooltips.destroy(), renderer.destroy() (the svg
\* leaves the page), graph = null; the chart is not used afterwards
Destroy ==
    /\ ~chart.busy
    /\ ~chart.destroyed
    /\ Commit([unbind(World) EXCEPT !.dom.attached = FALSE, !.chart.graph = FALSE,
                                    !.chart.destroyed = TRUE])
    /\ UNCHANGED <<links, gnodes, layoutVars, transformVars, metrics, mouse>>

NextChart ==
    \/ SetGraph
    \/ ComputeDepths
    \/ ComputeNodeValues
    \/ PositionNodesX
    \/ InitializeNodeY
    \/ RelaxNodePositions
    \/ RelaxForward
    \/ RelaxBackward
    \/ ComputeLinkOffsets
    \/ SetGraphRender
    \/ \E n \in Range(gnodes), y \in ClientYs : MouseDown(n, y)
    \/ \E y \in ClientYs : MouseMove(y)
    \/ MouseUp
    \/ \E n \in Range(gnodes), ev \in DOMAIN NodeEvent : OnNode(n, ev)
    \/ \E l \in 1..Len(links), ev \in DOMAIN LinkEvent : OnLink(l, ev)
    \/ Destroy

\* a chart in use: setGraph up to MaxSetGraphs times, pointer events in between,
\* destroy() at any moment between two events
SpecChart == InitChart /\ [][NextChart]_vars

-----------------------------------------------------------------------------
(* The graph as a set of links, read without the node's link arrays *)

GraphNodes == Range(gnodes)
LinkIds == 1..Len(links)
OutLinks(n) == {l \in LinkIds : links[l].source = n}
InLinks(n) == {l \in LinkIds : links[l].target = n}

RECURSIVE SumOverSet(_, _)
SumOverSet(S, f) ==
    IF S = {} THEN 0 ELSE LET e == CHOOSE e \in S : TRUE IN f[e] + SumOverSet(S \ {e}, f)

OutFlow(n) == SumOverSet(OutLinks(n), LinkValue(links))
InFlow(n) == SumOverSet(InLinks(n), LinkValue(links))

Bottom(n) == Add(nodes[n].y, nodes[n].height)
LinkWidths == [l \in LinkIds |-> links[l].width]

\* a state in which every column has been through resolveCollisions since its
\* nodes last moved: compute() has returned, or an iteration of the relaxation
\* has just ended (what a run of that many iterations would pass on)
Settled == Returned \/ (pc = "forward" /\ col = 1 /\ iter > 0)

-----------------------------------------------------------------------------
(* Claims *)

\* C1: after compute() with nodePadding >= 0 and any iteration count, two
\* distinct nodes of the same depth occupy disjoint vertical ranges: the one
\* with the smaller y ends (y + height) at or above the other's y.  Stated
\* also at the end of every relaxation iteration.
C1_NoOverlapInColumn ==
    (Settled /\ config.nodePadding >= 0) =>
        \A a, b \in GraphNodes :
            (a # b /\ nodes[a].depth = nodes[b].depth /\ Leq(nodes[a].y, nodes[b].y))
                => Leq(Bottom(a), nodes[b].y)

\* C1 witness: a relaxed layout in which a column below the first holds two
\* nodes that touch (gap exactly nodePadding), the upper one moved off the top
C1_Witness ==
    /\ Returned /\ config.nodePadding >= 0 /\ config.iterations > 0
    /\ \E a, b \in GraphNodes :
        /\ a # b /\ nodes[a].depth = nodes[b].depth /\ nodes[a].depth > 0
        /\ Add(Bottom(a), Num(config.nodePadding)) = nodes[b].y
        /\ nodes[a].y # Num(config.padding.top)

\* C2: after compute(), for every node whose outgoing links have a positive
\* total value, the widths of its outgoing links sum to the node's height.
C2_OutWidthsTileHeight ==
    Returned =>
        \A n \in GraphNodes :
            OutFlow(n) > 0 => SumRat(nodes[n].sourceLinks, LinkWidths) = nodes[n].height

\* C2 witness: a node with two outgoing links of different values and more
\* inflow than outflow
C2_Witness ==
    /\ Returned
    /\ \E n \in GraphNodes : \E l1, l2 \in OutLinks(n) :
        /\ links[l1].value # links[l2].value
        /\ InFlow(n) > OutFlow(n)
        /\ Lt(Zero, links[l1].width)

\* the scale of section "single global scale", read off the final columns as
\* sets: the least candidate (innerHeight - spacing) / totalValue over the
\* columns of positive total value, 0 when there is none
ColumnNodes(d) == {n \in GraphNodes : nodes[n].depth = d}
ColumnTotal(d) == SumOverSet(ColumnNodes(d), NodeValue(nodes))
UsedDepths == {nodes[n].depth : n \in GraphNodes}
ClaimedSpacing == [d \in UsedDepths |-> (Cardinality(ColumnNodes(d)) - 1) * config.nodePadding]
GuardedSpacing == [d \in UsedDepths |-> IF ClaimedSpacing[d] > 0 THEN ClaimedSpacing[d] ELSE 0]

ScaleFrom(spacing) ==
    LET C == {Rat(InnerHeight(config) - spacing[d], ColumnTotal(d)) :
                 d \in {e \in UsedDepths : ColumnTotal(e) > 0}}
    IN  IF C = {} THEN Zero ELSE CHOOSE x \in C : \A y \in C : Leq(x, y)

\* the node's height is value x scale, not the 1-pixel floor
NotFloored(n) == Leq(Num(1), Mul(Num(nodes[n].value), ScaleFrom(GuardedSpacing)))

SourceSet == {n \in GraphNodes : InLinks(n) = {}}

RECURSIVE Within(_)
Within(k) ==
    IF k = 0 THEN SourceSet
    ELSE LET W == Within(k - 1)
         IN  W \cup {links[l].target : l \in {m \in LinkIds : links[m].source \in W}}

Reachable == Within(Len(gnodes))

\* the minimum number of links on a path from a zero-inflow node to n
Dist(n) == CHOOSE k \in 0..Len(gnodes) : n \in Within(k) /\ \A j \in 0..(k - 1) : n \notin Within(j)

\* the depth the breadth-first layering gives: Dist, or the fallback 0
Layer(n) == IF n \in Reachable THEN Dist(n) ELSE 0

\* C5: with a zero-inflow node and nodeAlign other than 'justify', after
\* compute() every node reachable from a zero-inflow node has as depth the
\* minimum number of links on a path from such a node to it, and every node
\* was assigned its depth exactly once.
C5_DepthIsShortestPath ==
    (Returned /\ config.nodeAlign # "justify" /\ SourceSet # {}) =>
        \A n \in GraphNodes :
            /\ writes[n] = 1
            /\ n \in Reachable => nodes[n].depth = Dist(n)

\* C5 witness: a reachable node entered by a link that is not on a shortest
\* path to it (the layering met the node again and skipped it)
C5_Witness ==
    /\ Returned /\ config.nodeAlign # "justify"
    /\ \E l \in LinkIds :
        /\ links[l].source \in Reachable
        /\ links[l].source # links[l].target
        /\ nodes[links[l].target].depth > 0
        /\ nodes[links[l].target].depth <= nodes[links[l].source].depth

\* C6: with nodeAlign = 'justify' and a zero-inflow node, after compute() every
\* node without outgoing links has the maximum depth of the layering and every
\* node with outgoing links keeps the depth the layering gave it.
C6_JustifySinks ==
    (Returned /\ config.nodeAlign = "justify" /\ SourceSet # {}) =>
        \A n \in GraphNodes :
            nodes[n].depth = IF OutLinks(n) = {}
                             THEN MaxOf({Layer(m) : m \in GraphNodes})
                             ELSE Layer(n)

\* C6 witness: two sinks the layering puts at depths 1 and 2 both end at depth
\* 2, next to a node without any link
C6_Witness ==
    /\ Returned /\ config.nodeAlign = "justify"
    /\ \E a, b \in GraphNodes :
        /\ OutLinks(a) = {} /\ OutLinks(b) = {}
        /\ Layer(a) = 1 /\ Layer(b) = 2
        /\ nodes[a].depth = 2 /\ nodes[b].depth = 2

\* C7: compute() raises no error, and after it every node that no zero-inflow
\* node reaches has depth 0: all nodes when there is no zero-inflow node, and
\* otherwise all unreached nodes except the sinks the justify step moves.
C7_UnreachedDepthZero ==
    /\ pc # "threw"
    /\ Returned =>
        \A n \in GraphNodes :
            (n \notin Reachable
             /\ ~(config.nodeAlign = "justify" /\ SourceSet # {} /\ OutLinks(n) = {}))
                => nodes[n].depth = 0

\* C7 witness: a graph with a zero-inflow node, a reached node at depth > 0 and
\* a cycle the traversal never reaches
C7_Witness ==
    /\ Returned /\ SourceSet # {}
    /\ \E n, m \in GraphNodes :
        /\ n \notin Reachable /\ nodes[n].depth = 0
        /\ m \in Reachable /\ nodes[m].depth > 0

\* C8: after compute() every node's value is max(sum of its incoming link
\* values, sum of its outgoing link values), whatever it held before; 0 for a
\* node without links.
C8_NodeValue ==
    Returned =>
        \A n \in GraphNodes :
            nodes[n].value = IF InFlow(n) > OutFlow(n) THEN InFlow(n) ELSE OutFlow(n)

\* C8 witness: a node without links (its stale value replaced by 0) beside a
\* node with more inflow than outflow
C8_Witness ==
    /\ Returned
    /\ \E n, m \in GraphNodes :
        /\ InLinks(n) \cup OutLinks(n) = {} /\ prev.nodes[n].value = StaleValue
        /\ InFlow(m) > OutFlow(m) /\ OutFlow(m) > 0

\* C9 as claimed: every node's height is max(1, value x s), s the least
\* (innerHeight - (nodeCount - 1) x nodePadding) / totalValue over the columns
\* of positive total value, 0 when there is none.
C9_HeightFromClaimedScale ==
    Returned =>
        \A n \in GraphNodes :
            nodes[n].height = MaxR(Num(1), Mul(Num(nodes[n].value), ScaleFrom(ClaimedSpacing)))

\* C9 as amended: the same with the spacing max(0, (nodeCount - 1) x
\* nodePadding); every height is >= 1 and nodes of equal value have equal
\* heights.
C9_HeightFromGuardedScale ==
    Returned =>
        \A n \in GraphNodes :
            /\ nodes[n].height = MaxR(Num(1), Mul(Num(nodes[n].value), ScaleFrom(GuardedSpacing)))
            /\ Leq(Num(1), nodes[n].height)
            /\ \A m \in GraphNodes :
                  nodes[m].value = nodes[n].value => nodes[m].height = nodes[n].height

\* C9 witness: negative nodePadding, two columns of different totals, the
\* scale set by a column of two nodes, a node above the floor
C9_Witness ==
    /\ Returned /\ config.nodePadding < 0
    /\ \E n, m \in GraphNodes :
        /\ nodes[n].depth # nodes[m].depth
        /\ ColumnTotal(nodes[n].depth) > ColumnTotal(nodes[m].depth)
        /\ ColumnTotal(nodes[m].depth) > 0
        /\ Cardinality(ColumnNodes(nodes[n].depth)) > 1
        /\ Lt(Num(1), nodes[n].height)

\* C10: after compute(), along every node's sourceLinks in their final order
\* the first link has sy = 0 and each later link has sy = the previous link's
\* sy + the previous link's width.
C10_SourceOffsetsChain ==
    Returned =>
        \A n \in GraphNodes :
            \A k \in 1..Len(nodes[n].sourceLinks) :
                links[nodes[n].sourceLinks[k]].sy =
                    IF k = 1 THEN Zero
                    ELSE Add(links[nodes[n].sourceLinks[k - 1]].sy,
                             links[nodes[n].sourceLinks[k - 1]].width)

\* C10 witness: a node whose outgoing links compute() reordered, the second
\* one offset by the first one's positive width
C10_Witness ==
    /\ Returned
    /\ \E n \in GraphNodes :
        /\ Len(nodes[n].sourceLinks) >= 2
        /\ nodes[n].sourceLinks # prev.nodes[n].sourceLinks
        /\ Lt(Zero, links[nodes[n].sourceLinks[2]].sy)

\* C11: after compute(), along every node's targetLinks in their final order
\* the first link has ty = 0 and each later link has ty = the previous link's
\* ty + the previous link's width, and every link's width is the one fixed at
\* its source: (value / sum of the source's outgoing values) x source.height.
C11_TargetOffsetsChain ==
    Returned =>
        /\ \A n \in GraphNodes :
              \A k \in 1..Len(nodes[n].targetLinks) :
                  links[nodes[n].targetLinks[k]].ty =
                      IF k = 1 THEN Zero
                      ELSE Add(links[nodes[n].targetLinks[k - 1]].ty,
                               links[nodes[n].targetLinks[k - 1]].width)
        /\ \A l \in LinkIds :
              links[l].width = Mul(Rat(links[l].value, OutFlow(links[l].source)),
                                   nodes[links[l].source].height)

\* C11 witness: a node whose two incoming links compute() reordered, the
\* second offset by the first one's width, which is not the share of the
\* target's height its value would give
C11_Witness ==
    /\ Returned
    /\ \E n \in GraphNodes :
        /\ Len(nodes[n].targetLinks) >= 2
        /\ nodes[n].targetLinks # prev.nodes[n].targetLinks
        /\ Lt(Zero, links[nodes[n].targetLinks[2]].ty)
        /\ links[nodes[n].targetLinks[1]].width #
              Mul(Rat(links[nodes[n].targetLinks[1]].value, InFlow(n)), nodes[n].height)

\* the order of a and b in the array s (both occur in it once)
Before(s, a, b) ==
    \E i, j \in 1..Len(s) : i < j /\ s[i] = a /\ s[j] = b

\* C12: after compute(), every node's sourceLinks are in non-decreasing order
\* of the final y of their targets and its targetLinks in non-decreasing order
\* of the final y of their sources; links of equal key are in the relative
\* order they had before compute().
C12_LinkArraysSorted ==
    Returned =>
        \A n \in GraphNodes :
            /\ \A i, j \in 1..Len(nodes[n].sourceLinks) :
                  i < j =>
                    LET a == nodes[n].sourceLinks[i]
                        b == nodes[n].sourceLinks[j]
                    IN  /\ Leq(nodes[links[a].target].y, nodes[links[b].target].y)
                        /\ nodes[links[a].target].y = nodes[links[b].target].y
                              => Before(prev.nodes[n].sourceLinks, a, b)
            /\ \A i, j \in 1..Len(nodes[n].targetLinks) :
                  i < j =>
                    LET a == nodes[n].targetLinks[i]
                        b == nodes[n].targetLinks[j]
                    IN  /\ Leq(nodes[links[a].source].y, nodes[links[b].source].y)
                        /\ nodes[links[a].source].y = nodes[links[b].source].y
                              => Before(prev.nodes[n].targetLinks, a, b)

\* C12 witness: one node's incoming links were reordered, another node's two
\* outgoing links tie on their targets' y and kept their order
C12_Witness ==
    /\ Returned
    /\ \E n \in GraphNodes :
        /\ Len(nodes[n].targetLinks) >= 2
        /\ nodes[n].targetLinks # prev.nodes[n].targetLinks
    /\ \E n \in GraphNodes : \E i, j \in 1..Len(nodes[n].sourceLinks) :
        /\ i < j
        /\ nodes[links[nodes[n].sourceLinks[i]].target].y =
              nodes[links[nodes[n].sourceLinks[j]].target].y

\* the horizontal step of the layout, from the final depths
MaxDepth == MaxOf({nodes[n].depth : n \in GraphNodes})
InnerWidth == config.width - config.padding.left - config.padding.right - config.nodeWidth
Step == IF MaxDepth > 0 THEN Rat(InnerWidth, MaxDepth) ELSE Zero

\* every node has width = nodeWidth and x = padding.left + depth x step; x
\* strictly increases with depth when the inner width is positive
XFromDepth ==
    /\ \A n \in GraphNodes :
          /\ nodes[n].width = Num(config.nodeWidth)
          /\ nodes[n].x = Add(Num(config.padding.left), Mul(Num(nodes[n].depth), Step))
          /\ nodes[n].depth = 0 => nodes[n].x = Num(config.padding.left)
    /\ InnerWidth > 0 =>
          \A n, m \in GraphNodes :
              nodes[n].depth < nodes[m].depth => Lt(nodes[n].x, nodes[m].x)

\* the nodes of the last column end at the canvas width less the right padding
LastColumnAtRight ==
    \A n \in GraphNodes :
        nodes[n].depth = MaxDepth =>
            Add(nodes[n].x, nodes[n].width) = Num(config.width - config.padding.right)

\* C13 as claimed: after compute(), width = nodeWidth and x = padding.left +
\* depth x step for every node, depth-0 nodes are at padding.left, x increases
\* strictly with depth, and the nodes of the last column have x + width =
\* canvas width - padding.right.
C13_XPositionsLastAtRight ==
    Returned => (XFromDepth /\ LastColumnAtRight)

\* C13 as amended: the same, the last column ending at canvas width -
\* padding.right when there is more than one column.
C13_XPositions ==
    Returned => (XFromDepth /\ (MaxDepth > 0 => LastColumnAtRight))

\* C13 witness: three columns, the middle one at a fractional step
C13_Witness ==
    /\ Returned
    /\ MaxDepth = 2
    /\ \E a, b, c \in GraphNodes :
        /\ nodes[a].depth = 0 /\ nodes[b].depth = 1 /\ nodes[c].depth = 2
        /\ Lt(nodes[a].x, nodes[b].x) /\ Lt(nodes[b].x, nodes[c].x)


\* C14: compute() never raises an exception, whatever the graph: empty, a
\* single node, cyclic, disconnected, with zero-value links, with iterations =
\* 0, or with links whose source or target is not a member of graph.nodes.
C14_NeverThrows == pc # "threw"

\* compute() is past computeDepths
DepthsDone == pc \notin {"idle", "computeDepths"} \/ (Returned /\ gnodes # <<>>)

\* compute() is past relaxNodePositions
RelaxDone == pc = "computeLinkOffsets" \/ (Returned /\ gnodes # <<>>)

\* C15: compute() terminates on every finite graph, cycles and self-loops
\* included: every call returns; the breadth-first loop assigns each node its
\* depth at most once (a second assignment only by the justify step, to a
\* sink); and the relaxation loop ends after exactly config.iterations
\* iterations.
C15_Terminates ==
    /\ <>Returned
    /\ [](DepthsDone =>
            \A n \in GraphNodes :
                writes[n] <= IF config.nodeAlign = "justify" /\ OutLinks(n) = {} THEN 2 ELSE 1)
    /\ [](RelaxDone => iter = config.iterations)

\* C15 witness: a returned layout of several columns, relaxed for
\* MaxIterations iterations, of a graph with a cycle (a self-loop or a pair of
\* opposite links) that the traversal reached
C15_Witness ==
    /\ Returned
    /\ Len(columns) > 1 /\ iter = MaxIterations
    /\ \E l, m \in LinkIds :
        /\ links[l].source = links[m].target /\ links[l].target = links[m].source
        /\ nodes[links[l].source].depth > 0

\* the arrays s and t hold the same elements, each as many times
SameElements(s, t) ==
    /\ Len(s) = Len(t)
    /\ \A e \in Range(s) \cup Range(t) :
          Cardinality({i \in 1..Len(s) : s[i] = e}) = Cardinality({i \in 1..Len(t) : t[i] = e})

\* C16: from the moment compute() is entered, the graph holds the same nodes
\* and links as at the call, graph.nodes and the links in the same order; every
\* node keeps its id, label and color, every link its source, target and value;
\* and each node's sourceLinks and targetLinks hold exactly the links they
\* held at the call, in some order.
C16_Frame ==
    calls > 0 =>
        /\ gnodes = [i \in 1..Len(prev.nodes) |-> i]
        /\ Len(nodes) = Len(prev.nodes)
        /\ Len(links) = Len(prev.links)
        /\ \A n \in 1..Len(nodes) :
              /\ nodes[n].id = prev.nodes[n].id
              /\ nodes[n].label = prev.nodes[n].label
              /\ nodes[n].color = prev.nodes[n].color
              /\ SameElements(nodes[n].sourceLinks, prev.nodes[n].sourceLinks)
              /\ SameElements(nodes[n].targetLinks, prev.nodes[n].targetLinks)
        /\ \A l \in LinkIds :
              /\ links[l].source = prev.links[l].source
              /\ links[l].target = prev.links[l].target
              /\ links[l].value = prev.links[l].value

\* C16 witness: compute() has returned having reordered a node's sourceLinks,
\* whose links tie on their targets' y in another node's array, and having
\* written the computed fields of nodes and links
C16_Witness ==
    /\ Returned
    /\ \E n \in GraphNodes : nodes[n].sourceLinks # prev.nodes[n].sourceLinks
    /\ \E n \in GraphNodes : \E i, j \in 1..Len(nodes[n].targetLinks) :
          /\ i < j
          /\ nodes[links[nodes[n].targetLinks[i]].source].y =
                nodes[links[nodes[n].targetLinks[j]].source].y
    /\ \E n \in GraphNodes : nodes[n].depth # prev.nodes[n].depth /\ nodes[n].y # prev.nodes[n].y
    /\ \E l \in LinkIds : links[l].width # prev.links[l].width

\* a row the transform is to drop: empty source, empty target, or a value that
\* is zero, negative or not a number
Dropped(row) ==
    row.source = <<>> \/ row.target = <<>> \/ row.value.nan \/ row.value.n <= 0

KeptRowNumbers == {k \in 1..Len(rows) : ~Dropped(rows[k])}

\* C17: the graph transform() returns (nodes with their order and colors, and
\* links) is the graph it returns for the input without the dropped rows: a
\* dropped row contributes neither a link nor a node.
C17_DroppedRowsLeaveNoTrace ==
    tpc = "returned" =>
        LET kept == TransformOf(SelectSeq(rows, LAMBDA r : ~Dropped(r)))
        IN  ~kept.threw /\ nodes = kept.ns /\ links = kept.ls

\* the distinct (source, target) pairs of the kept rows
KeptPairs == {<<rows[k].source, rows[k].target>> : k \in KeptRowNumbers}

\* the sum of the values of the kept rows with the pair p
PairTotal(p) ==
    SumOverSet({k \in KeptRowNumbers : <<rows[k].source, rows[k].target>> = p},
               [k \in 1..Len(rows) |-> rows[k].value.n])

\* C18: for all non-empty source and target strings, transform() returns, and
\* the graph has exactly one link per distinct (source, target) pair of the
\* kept rows, from the node with the source's id to the node with the target's
\* id, its value the sum of the values of the kept rows with that pair.
C18_OneLinkPerPair ==
    /\ tpc # "threw"
    /\ tpc = "returned" =>
          /\ Len(links) = Cardinality(KeptPairs)
          /\ \A p \in KeptPairs :
                \E l \in 1..Len(links) :
                    /\ nodes[links[l].source].id = p[1]
                    /\ nodes[links[l].target].id = p[2]
                    /\ links[l].value = PairTotal(p)

\* the array s holds no element twice
NoRepeats(s) == Cardinality(Range(s)) = Len(s)

\* C19: in the graph transform() returns, node ids are unique, every link's
\* source and target are members of graph.nodes, and each node's sourceLinks
\* (targetLinks) holds exactly the links whose source (target) it is, each
\* once.
C19_GraphWiring ==
    tpc = "returned" =>
        /\ \A a, b \in 1..Len(nodes) : nodes[a].id = nodes[b].id => a = b
        /\ Range(gnodes) = 1..Len(nodes) /\ NoRepeats(gnodes)
        /\ \A l \in 1..Len(links) :
              links[l].source \in Range(gnodes) /\ links[l].target \in Range(gnodes)
        /\ \A n \in Range(gnodes) :
              /\ Range(nodes[n].sourceLinks) = {l \in 1..Len(links) : links[l].source = n}
              /\ Range(nodes[n].targetLinks) = {l \in 1..Len(links) : links[l].target = n}
              /\ NoRepeats(nodes[n].sourceLinks)
              /\ NoRepeats(nodes[n].targetLinks)

\* C19 witness: a returned graph with a link from a node to itself, a node
\* with two outgoing links, and two rows aggregated into one link
C19_Witness ==
    /\ tpc = "returned"
    /\ \E l \in 1..Len(links) : links[l].source = links[l].target
    /\ \E n \in 1..Len(nodes) : Len(nodes[n].sourceLinks) = 2
    /\ Len(links) < Cardinality(KeptRowNumbers)

\* analyze() has run on a graph with nodes
Analyzed == metrics # <<>>

\* inflow and outflow are the sums of the node's incoming and outgoing link
\* values, and dropOffRate = dropOff / inflow whenever inflow > 0
FlowsAndRate ==
    \A k \in 1..Len(metrics) :
        LET n == gnodes[k]
            m == metrics[k]
        IN  /\ m.nodeId = nodes[n].id
            /\ m.inflow = InFlow(n)
            /\ m.outflow = OutFlow(n)
            /\ m.inflow > 0 => m.dropOffRate = Rat(m.dropOff, m.inflow)

C21_ConversionRate ==
    Analyzed =>
        \A k \in 1..Len(metrics) :
            LET n == gnodes[k]
                m == metrics[k]
            IN  /\ m.isSource = (InLinks(n) = {})
                /\ m.isSink = (OutLinks(n) = {})
                /\ InFlow(n) > 0 => m.conversionRate = Rat(OutFlow(n), InFlow(n))
                /\ (InLinks(n) = {} /\ OutLinks(n) # {}) => m.conversionRate = Num(1)
                /\ (InLinks(n) = {} /\ OutLinks(n) = {}) => m.conversionRate = Zero

-----------------------------------------------------------------------------
(* Stacking, relaxation and depth claims *)

RECURSIVE SumRatOverSet(_, _)
SumRatOverSet(S, f) ==
    IF S = {} THEN Zero
    ELSE LET e == CHOOSE e \in S : TRUE IN Add(f[e], SumRatOverSet(S \ {e}, f))

\* the position of node n in graph.nodes
GraphIndex(n) == CHOOSE k \in 1..Len(gnodes) : gnodes[k] = n

\* a comes before b in the stacking order of their column: larger value, or
\* equal value and earlier in graph.nodes
StackedAbove(a, b) ==
    /\ a # b
    /\ nodes[a].depth = nodes[b].depth
    /\ \/ nodes[a].value > nodes[b].value
       \/ nodes[a].value = nodes[b].value /\ GraphIndex(a) < GraphIndex(b)

\* the height of a node plus the padding under it
Slot == [a \in 1..Len(nodes) |-> Add(nodes[a].height, Num(config.nodePadding))]

\* C23: with iterations = 0, after compute() every column is stacked from
\* padding.top downward in descending value, ties in graph.nodes order: a
\* node's y is padding.top plus height + nodePadding of every node stacked
\* above it (so the first node is at padding.top and each next one at the
\* previous y + previous height + nodePadding).
C23_StackedByValue ==
    (Returned /\ config.iterations = 0) =>
        \A n \in GraphNodes :
            nodes[n].y = Add(Num(config.padding.top),
                             SumRatOverSet({a \in GraphNodes : StackedAbove(a, n)}, Slot))

\* C23 witness: a column of three in which the sort moved a larger node above
\* an earlier smaller one and kept two equal nodes in graph.nodes order
C23_Witness ==
    /\ Returned /\ config.iterations = 0
    /\ \E a, b, c \in GraphNodes :
        /\ nodes[a].depth = nodes[b].depth /\ nodes[b].depth = nodes[c].depth
        /\ GraphIndex(a) < GraphIndex(b) /\ GraphIndex(b) < GraphIndex(c)
        /\ nodes[b].value > nodes[a].value /\ nodes[a].value = nodes[c].value
        /\ nodes[b].y = Num(config.padding.top)
        /\ nodes[a].y = Add(nodes[b].y, Slot[b])
        /\ nodes[c].y = Add(nodes[a].y, Slot[a])

\* a pass of the relaxation is under way
InRelaxation == pc \in {"forward", "backward"}

\* C24 as claimed: the damping of the final iteration (i = iterations - 1) is
\* 0.
C24_FinalDampingZero ==
    (InRelaxation /\ iter = config.iterations - 1) => damping = Zero

\* C24: in a run of N >= 1 iterations the damping of iteration i (from 0) is
\* 1 - i/N; it is 1 in the first iteration and 1/N, not 0, in the final one.
C24_Damping ==
    InRelaxation =>
        /\ damping = Sub(Num(1), Rat(iter, config.iterations))
        /\ iter = 0 => damping = Num(1)
        /\ iter = config.iterations - 1 => damping = Rat(1, config.iterations)

\* C24 witness: the backward pass of the final iteration of a run of more than
\* one iteration, with a damping that is neither 1 nor 0
C24_Witness ==
    /\ pc = "backward" /\ iter = config.iterations - 1 /\ iter > 0
    /\ Lt(Zero, damping) /\ Lt(damping, Num(1))

\* the column resolveCollisions has just returned from (as an index of
\* `columns`), if the last step was a column of a pass
JustResolved ==
    IF pc = "forward" /\ col >= 2 THEN {col}
    ELSE IF pc = "backward" THEN {col + 2}
    ELSE IF pc = "forward" /\ iter > 0 THEN {1}
    ELSE IF pc = "computeLinkOffsets" /\ config.iterations > 0 /\ Len(columns) > 1 THEN {1}
    ELSE {}

\* C25: with nodePadding >= 0, when resolveCollisions returns from a column
\* the array order fixed by its sort and first sweep is still the ascending-y
\* order, each node's y is at least the previous node's y + height +
\* nodePadding, and the lowest node ends at or above height - padding.bottom.
C25_ResolvedColumn ==
    config.nodePadding >= 0 =>
        \A c \in JustResolved :
            LET column == columns[c]
            IN  /\ column # <<>>
                /\ \A k \in 1..(Len(column) - 1) :
                    /\ Leq(nodes[column[k]].y, nodes[column[k + 1]].y)
                    /\ Leq(Add(Bottom(column[k]), Num(config.nodePadding)),
                           nodes[column[k + 1]].y)
                /\ Leq(Bottom(column[Len(column)]),
                       Num(config.height - config.padding.bottom))

\* C25 witness: a resolved column of several nodes with positive padding whose
\* lowest node was pulled back to the bottom edge and whose other nodes were
\* pushed up against it, off the top
C25_Witness ==
    /\ config.nodePadding > 0
    /\ \E c \in JustResolved :
        LET column == columns[c]
        IN  /\ Len(column) >= 2
            /\ Bottom(column[Len(column)]) = Num(config.height - config.padding.bottom)
            /\ \A k \in 1..(Len(column) - 1) :
                Add(Bottom(column[k]), Num(config.nodePadding)) = nodes[column[k + 1]].y
            /\ nodes[column[1]].y # Num(config.padding.top)

\* C28: for a well-formed non-empty graph and either nodeAlign, once the
\* depths are assigned every column 0..maxDepth holds a node, and no pass of
\* the relaxation comes to an empty column.
C28_NoEmptyColumn ==
    /\ (DepthsDone /\ gnodes # <<>>) => \A d \in 0..MaxDepth : ColumnNodes(d) # {}
    /\ InRelaxation => columns[col + 1] # <<>>

\* C28 witness: a pass under way on three columns after the justify step moved
\* a sink off the middle column
C28_Witness ==
    /\ InRelaxation /\ config.nodeAlign = "justify" /\ MaxDepth = 2
    /\ \E n \in GraphNodes : OutLinks(n) = {} /\ Layer(n) = 1 /\ nodes[n].depth = 2
    /\ \A d \in 0..2 : ColumnNodes(d) # {}

\* C29: with nodePadding >= 0 and no node's height raised by the 1-pixel
\* floor, after compute() with any iteration count every node lies between
\* padding.top and height - padding.bottom.
C29_InsideCanvas ==
    (Returned /\ config.nodePadding >= 0 /\ \A n \in GraphNodes : NotFloored(n)) =>
        \A n \in GraphNodes :
            /\ Leq(Num(config.padding.top), nodes[n].y)
            /\ Leq(Bottom(n), Num(config.height - config.padding.bottom))

\* C29 witness: a relaxed layout without floored nodes in which a node of a
\* later column sits off the top and the lowest node of its column ends on
\* the bottom edge
C29_Witness ==
    /\ Returned /\ config.nodePadding >= 0 /\ config.iterations > 0
    /\ gnodes # <<>> /\ \A n \in GraphNodes : NotFloored(n)
    /\ \E n, m \in GraphNodes :
        /\ nodes[n].depth > 0 /\ nodes[n].depth = nodes[m].depth
        /\ Lt(Num(config.padding.top), nodes[n].y)
        /\ Bottom(m) = Num(config.height - config.padding.bottom)

\* the nodes at the end of a path of at least one link from a node of S
RECURSIVE After(_, _)
After(S, k) ==
    LET T == {links[l].target : l \in {m \in LinkIds : links[m].source \in S}}
    IN  IF k = 0 THEN {} ELSE T \cup After(T, k - 1)

\* no node lies on a cycle
Acyclic == \A n \in GraphNodes : n \notin After({n}, Len(gnodes))

\* C30 as claimed: in an acyclic graph every link has target.depth >
\* source.depth once the depths are assigned.
C30_LinksGoForward ==
    (DepthsDone /\ Acyclic) =>
        \A l \in LinkIds : nodes[links[l].target].depth > nodes[links[l].source].depth

\* a sink the justify step is applied to
JustifiedSink(n) == config.nodeAlign = "justify" /\ OutLinks(n) = {}

\* C30: in an acyclic graph, once the depths are assigned, every link whose
\* target is not a justified sink has target.depth <= source.depth + 1 (the
\* target may be in the source's column or earlier), and every such target has
\* an incoming link from the column just before it.
C30_LinksAtMostOneColumnAhead ==
    (DepthsDone /\ Acyclic) =>
        \A l \in LinkIds :
            LET t == links[l].target
            IN  ~JustifiedSink(t) =>
                    /\ nodes[t].depth <= nodes[links[l].source].depth + 1
                    /\ \E m \in InLinks(t) :
                           nodes[t].depth = nodes[links[m].source].depth + 1

\* C30 witness: an acyclic graph with a link that stays inside one column
C30_Witness ==
    /\ Returned /\ Acyclic
    /\ \E l \in LinkIds :
        /\ ~JustifiedSink(links[l].target)
        /\ nodes[links[l].target].depth = nodes[links[l].source].depth
        /\ nodes[links[l].target].depth > 0

-----------------------------------------------------------------------------
(* Interaction claims *)

\* the nodes at the start of a path of at least one link into a node of S
RECURSIVE Ahead(_, _)
Ahead(S, k) ==
    LET T == {links[l].source : l \in {m \in LinkIds : links[m].target \in S}}
    IN  IF k = 0 THEN {} ELSE T \cup Ahead(T, k - 1)

ForwardNodes(n) == {n} \cup After({n}, Len(gnodes))
BackwardNodes(n) == {n} \cup Ahead({n}, Len(gnodes))
ForwardLinks(n) == {l \in LinkIds : links[l].source \in ForwardNodes(n)}
BackwardLinks(n) == {l \in LinkIds : links[l].target \in BackwardNodes(n)}

\* the pointer holds a node: a mousedown hit a draggable rect and the button
\* is still down
Dragging == mouse.down /\ mouse.node # 0

\* C22: a mousedown, mousemove or mouseup never starts SankeyLayout.compute and
\* never changes a link; mousedown and mouseup change no node; a mousemove
\* while a node is held sets that node's y to its y at mousedown + (clientY -
\* clientY at mousedown), changes no other field, and the chart renders again
\* with the rects at the nodes' y; a mousemove while no node is held changes
\* nothing.
C22_DragFrame ==
    [][/\ ((\E n \in Range(gnodes), y \in ClientYs : MouseDown(n, y)) \/ MouseUp) =>
            /\ nodes' = nodes /\ links' = links
            /\ calls' = calls /\ pc' = pc /\ chart'.computes = chart.computes
       /\ \A y \in ClientYs :
            MouseMove(y) =>
                /\ links' = links
                /\ calls' = calls /\ pc' = pc /\ chart'.computes = chart.computes
                /\ IF Dragging
                   THEN /\ nodes' = [nodes EXCEPT ![mouse.node].y =
                                         Add(mouse.nodeY0, Num(y - mouse.y0))]
                        /\ ~chart.destroyed =>
                               /\ dom'.gen = dom.gen + 1
                               /\ dom'.y = [n \in Range(gnodes) |-> nodes'[n].y]
                   ELSE /\ nodes' = nodes /\ dom' = dom /\ em' = em
                        /\ emitted' = emitted /\ highlight' = highlight
      ]_vars

\* C22 witness: the second mousemove of a drag has been handled: the chart was
\* laid out once and rendered three times, the closure that moves the node
\* belongs to a rect of an earlier rendering, and the held node is off its y at
\* mousedown, in a graph with another node and a link
C22_Witness ==
    /\ Dragging /\ ~chart.destroyed
    /\ chart.computes = 1 /\ dom.gen = 3
    /\ \E h \in Range(dom.document) : h[2][2] = 1 /\ em.drag[h[2]].dragging
    /\ nodes[mouse.node].y # mouse.nodeY0
    /\ \E n \in GraphNodes : n # mouse.node
    /\ links # <<>>

\* C26 as claimed: once destroy() has run no listener is left on any element
\* or on the document, and no later DOM event emits a chart event or changes
\* a node.
C26_NoListenerAfterDestroy ==
    chart.destroyed =>
        /\ dom.listeners = {}
        /\ dom.document = <<>>
        /\ ~emitted.late

\* C27 as claimed: highlightNode(node) highlights, under 'forward', exactly
\* the links and nodes reachable from the node along outgoing links, under
\* 'backward' those reachable along incoming links, under 'both' the union of
\* the two, and under 'none' it changes nothing.
C27_HighlightReachable ==
    /\ config.highlightMode = "none" => ~highlight.applied
    /\ highlight.last[1] = "node" =>
        LET n == highlight.last[2]
            fwd == config.highlightMode \in {"forward", "both"}
            bwd == config.highlightMode \in {"backward", "both"}
        IN  /\ highlight.links = (IF fwd THEN ForwardLinks(n) ELSE {})
                                    \cup (IF bwd THEN BackwardLinks(n) ELSE {})
            /\ highlight.nodes = {n} \cup (IF fwd THEN ForwardNodes(n) ELSE {})
                                     \cup (IF bwd THEN BackwardNodes(n) ELSE {})

=============================================================================
